---- MODULE Spec2Model ----
(***************************************************************************)
(* Manifold: the resumable phase orchestrator (src/src/manifold.ts), its   *)
(* run-state store (src/src/state.ts) and the resource provisioner with    *)
(* its rollback manager (src/src/provision.ts).                            *)
(*                                                                         *)
(* Two specifications share the persisted file:                            *)
(*   Spec       one orchestrator per workspace; every patch() is one step  *)
(*   SpecStore  the store alone: patch() split at its awaits (read, write  *)
(*              of the temp file, rename), two callers, crashes            *)
(***************************************************************************)
EXTENDS Integers, Sequences, FiniteSets, TLC

(* ---------------------------- bounds --------------------------------- *)

\* number of handleSetup invocations explored
MaxInvocations == 2

\* number of patch() calls each caller of SpecStore makes
MaxPatchCalls == 1
MaxStackLen == 3
MaxArgLen == 2
MaxLogLen == 6

(* --------------------------- values ---------------------------------- *)

Null == "null"

Phases == <<"0_env_check", "1_auth", "2_scaffold", "3_provision", "4_env_wiring", "5_deploy">>

PhaseIndex(p) == CHOOSE i \in 1..Len(Phases) : Phases[i] = p

\* what the operator may type as the project name; "" stands for undefined/blank
NameInputs == {"", "app"}

\* selectedName = projectName?.trim() || "my-app"
SelectedName(projectName) == IF projectName = "" THEN "my-app" ELSE projectName

ProjectNames == {SelectedName(n) : n \in NameInputs}

\* answers to the phase-1 prompts; "" stands for empty, blank or dismissed
TokenAnswers == {"", "sbp_tok"}
UrlAnswers == {"", "https://ref1", "https://ref1/", "https://short"}
KeyAnswers == {"", "sb_key"}
VercelTokenAnswers == {"", "vercel_tok"}

\* parseSupabaseProjectRef on the URLs above: the host label of "https://short"
\* is too short to be a reference
ParseRef(url) == IF url \in {"https://ref1", "https://ref1/"} THEN "ref1" ELSE Null

\* projectUrl.trim().replace(/\/+$/, "")
NormalizeUrl(url) == IF url = "https://ref1/" THEN "https://ref1" ELSE url

\* fullRepo = `${owner}/${projectName}`, for the one acting identity "owner"
FullRepo(projectName) == IF projectName = "app" THEN "owner/app" ELSE "owner/my-app"

\* compensation commands, stored verbatim in the rollback stack
CmdRepoDelete(projectName) == <<"gh repo delete", FullRepo(projectName)>>
CmdProjectRm(projectName) == <<"vercel project rm", projectName>>

Range(s) == {s[i] : i \in DOMAIN s}

(* ------------------------ the state document ------------------------- *)

createDefaultState(projectName, backend, now) ==
  [ status |-> "in_progress",
    state_version |-> 1,
    run_id |-> now,
    current_phase |-> "0_env_check",
    config |-> [ project_name |-> projectName,
                 stack |-> [frontend |-> "react-vite", backend |-> backend] ],
    resources |-> [ github_repo |-> Null,
                    vercel_project_id |-> Null,
                    supabase_ref |-> Null ],
    credentials |-> [ vercel_token |-> Null,
                      supabase_access_token |-> Null,
                      supabase_url |-> Null,
                      supabase_publishable_key |-> Null ],
    rollback_stack |-> <<>> ]

\* the object spread {...a, ...b}
Spread(a, b) ==
  [k \in (DOMAIN a) \cup (DOMAIN b) |-> IF k \in DOMAIN b THEN b[k] ELSE a[k]]

\* patch.k ?? {}
SubPatch(p, k) == IF k \in DOMAIN p THEN p[k] ELSE <<>>

\* a merge that takes a supplied credentials object wholesale: the keys the
\* patch leaves out come back null
MergeDoc_shallow(current, patch) ==
  LET top == Spread(current, patch)
      cfgPatch == SubPatch(patch, "config")
      stack == Spread(current.config.stack, SubPatch(cfgPatch, "stack"))
      config == [Spread(current.config, cfgPatch) EXCEPT !.stack = stack]
      blank == [k \in DOMAIN current.credentials |-> Null]
  IN  [top EXCEPT
         !.config = config,
         !.resources = Spread(current.resources, SubPatch(patch, "resources")),
         !.credentials = IF "credentials" \in DOMAIN patch
                           THEN Spread(blank, patch.credentials)
                           ELSE current.credentials,
         !.rollback_stack = IF "rollback_stack" \in DOMAIN patch
                              THEN patch.rollback_stack ELSE current.rollback_stack]

\* the object `next` built by StateManager.patch from `current` and `patch`
MergeDoc(current, patch) ==
  LET top == Spread(current, patch)
      cfgPatch == SubPatch(patch, "config")
      stack == Spread(current.config.stack, SubPatch(cfgPatch, "stack"))
      config == [Spread(current.config, cfgPatch) EXCEPT !.stack = stack]
  IN  [top EXCEPT
         !.config = config,
         !.resources = Spread(current.resources, SubPatch(patch, "resources")),
         !.credentials = Spread(current.credentials, SubPatch(patch, "credentials")),
         !.rollback_stack = IF "rollback_stack" \in DOMAIN patch
                              THEN patch.rollback_stack ELSE current.rollback_stack]

(* --------------------------- the file system ------------------------- *)

\* content of a path: absent, or the JSON text of a document written in full,
\* in part ("partial") or not at all yet ("empty": created or truncated)
NoDoc == [status |-> "none"]
Absent == [kind |-> "absent", doc |-> NoDoc]
Full(d) == [kind |-> "full", doc |-> d]
Partial(d) == [kind |-> "partial", doc |-> d]
Empty == [kind |-> "empty", doc |-> NoDoc]

\* StateManager.read succeeds: readFile finds the file and JSON.parse accepts it
Readable(f) == f.kind = "full"

VARIABLES
  file,          \* content of <workspace>/.manifold.json
  tmp,           \* content of <workspace>/.manifold.json.tmp
  \* ---- orchestrator (Spec)
  pc,            \* position of the running handleSetup invocation, "idle" if none
  invocations,   \* number of handleSetup invocations started
  outcome,       \* how the last command ended: "none", "returned", "threw", "reset"
  entryPhase,    \* current_phase found in the store when the invocation started
  stream,        \* phase headers written to the operator channel by this invocation
  local,         \* local variables of the running handlers
  repos,         \* GitHub repositories that exist (full names)
  projects,      \* hosting projects that exist
  created,       \* remote resources created by the current provisioning attempt
  rollbackStack, \* runProvisioning's rollbackStack
  executed,      \* compensation commands run by runRollback in this attempt
  secrets,       \* the secret slots that hold a value
  \* ---- store (SpecStore)
  spc,           \* position of each caller inside patch()
  scalls,        \* patch() calls each caller has started
  spatch,        \* the argument of each caller's patch()
  scur,          \* `current` as read by each caller
  snext,         \* `next` as merged by each caller
  sfd,           \* where the temp file each caller has open is linked now
  overlapped,    \* some patch() started while another was in progress
  crashed,       \* the process crashed
  \* ---- pure functions (one specification per function)
  input,         \* the arguments the function is called with
  output         \* [done |-> the call has returned, value |-> what it returned]

ovars == <<pc, invocations, outcome, entryPhase, stream, local, repos, projects,
           created, rollbackStack, executed, secrets>>
svars == <<spc, scalls, spatch, scur, snext, sfd, overlapped, crashed>>
fvars == <<input, output>>
vars == <<file, tmp, pc, invocations, outcome, entryPhase, stream, local, repos,
          projects, created, rollbackStack, executed, secrets,
          spc, scalls, spatch, scur, snext, sfd, overlapped, crashed,
          input, output>>

(* ------------------------ StateManager (state.ts) -------------------- *)

\* a write that goes straight to the real path
WriteTmp_inPlace(fs, content) == [fs EXCEPT !.file = content]

\* writeAtomic, first half: fs.writeFile(tmpPath, payload) leaves `content` at
\* the temporary path; fs is the pair of paths
WriteTmp(fs, content) == [fs EXCEPT !.tmp = content]

\* a rename that discards the temporary file and keeps the old document
Rename_keepsOld(fs) == [file |-> fs.file, tmp |-> Absent]

\* writeAtomic, second half: fs.rename(tmpPath, filePath)
Rename(fs) == [file |-> fs.tmp, tmp |-> Absent]

\* writeAtomic as one step (no other writer, no crash)
writeAtomic(fs, state) == Rename(WriteTmp(fs, Full(state)))

\* an initialisation that writes the default state over whatever is there
ensureInitialized_overwrites(fs, projectName, backend, now) ==
  writeAtomic(fs, createDefaultState(projectName, backend, now))

\* ensureInitialized: keep a readable state, otherwise persist the default one
ensureInitialized(fs, projectName, backend, now) ==
  IF Readable(fs.file) THEN fs
  ELSE writeAtomic(fs, createDefaultState(projectName, backend, now))

\* a patch that spreads the supplied object over the document, top level only
patch_overwrites(fs, p) == writeAtomic(fs, Spread(fs.file.doc, p))

\* patch as one step: read, merge, writeAtomic (the caller has checked Readable)
patch(fs, p) == writeAtomic(fs, MergeDoc(fs.file.doc, p))

FS == [file |-> file, tmp |-> tmp]

\* the running invocation persists patch p
Persist(p) ==
  LET fs == patch(FS, p)
  IN  file' = fs.file /\ tmp' = fs.tmp

\* StateManager.reset: fs.rm(filePath, {force: true})
reset(fs) == [fs EXCEPT !.file = Absent]

(* ------------------- the orchestrator (manifold.ts) ------------------ *)

SecretKeys == {"manifold.supabase.pat", "manifold.supabase.projectUrl",
               "manifold.supabase.publishableKey", "manifold.supabase.accessToken",
               "manifold.vercel.token"}

LocalInit ==
  [ ghOk |-> FALSE, vercelOk |-> FALSE, supabaseOk |-> FALSE,
    projectName |-> Null, githubRepo |-> Null, vercelProjectId |-> Null,
    vercelCreated |-> FALSE,
    resultOk |-> FALSE,
    existedAtStart |-> {}, issued |-> {}, failed |-> {},
    registered |-> <<>>, output |-> <<>>,
    envWritten |-> FALSE, deployOk |-> FALSE, installFailed |-> FALSE,
    present |-> {}, checks |-> 0, missingOrder |-> <<>>, attempts |-> <<>>,
    prompts |-> <<>>, answers |-> <<>>, verifyRequests |-> 0,
    checkPhase |-> Null, running |-> FALSE, started |-> <<>>,
    finished |-> {}, checkOk |-> {}, decided |-> FALSE ]

\* the invocation returns to its caller
Return(how) ==
  /\ pc' = "idle"
  /\ outcome' = how

\* a JavaScript truthiness test on a nullable string field
Truthy(v) == v # Null /\ v # ""

\* a handleSetup that restarts at phase 0 without touching the stored status
HandleSetup_keepsStatus(projectName) ==
  /\ pc = "idle"
  /\ invocations < MaxInvocations
  /\ LET selectedName == SelectedName(projectName)
         fs0 == ensureInitialized(FS, selectedName, "flask", invocations + 1)
         fs1 == patch(fs0, [ current_phase |-> "0_env_check",
                             config |-> [ project_name |-> selectedName,
                                          stack |-> [ frontend |-> "react-vite",
                                                      backend |-> "flask" ] ] ])
     IN  /\ file' = fs1.file
         /\ tmp' = fs1.tmp
  /\ entryPhase' = IF Readable(file) THEN file.doc.current_phase ELSE "none"
  /\ invocations' = invocations + 1
  /\ pc' = "bootstrap"
  /\ outcome' = "none"
  /\ stream' = <<>>
  /\ local' = LocalInit
  /\ created' = {}
  /\ rollbackStack' = <<>>
  /\ executed' = <<>>
  /\ UNCHANGED <<repos, projects, secrets>>
  /\ UNCHANGED <<svars, fvars>>

\* handleSetup up to the call of bootstrap (lines 32-47)
HandleSetup(projectName) ==
  /\ pc = "idle"
  /\ invocations < MaxInvocations
  /\ LET selectedName == SelectedName(projectName)
         fs0 == ensureInitialized(FS, selectedName, "flask", invocations + 1)
         fs1 == patch(fs0, [ status |-> "in_progress",
                             current_phase |-> "0_env_check",
                             config |-> [ project_name |-> selectedName,
                                          stack |-> [ frontend |-> "react-vite",
                                                      backend |-> "flask" ] ] ])
     IN  /\ file' = fs1.file
         /\ tmp' = fs1.tmp
  /\ entryPhase' = IF Readable(file) THEN file.doc.current_phase ELSE "none"
  /\ invocations' = invocations + 1
  /\ pc' = "bootstrap"
  /\ outcome' = "none"
  /\ stream' = <<>>
  /\ local' = LocalInit
  /\ created' = {}
  /\ rollbackStack' = <<>>
  /\ executed' = <<>>
  /\ UNCHANGED <<repos, projects, secrets>>
  /\ UNCHANGED <<svars, fvars>>

\* bootstrap (phase 0): firstOk = the first check found every tool,
\* secondOk = the check after the install attempts found every tool
Bootstrap(firstOk, secondOk) ==
  /\ pc = "bootstrap"
  /\ stream' = Append(stream, "0_env_check")
  /\ IF firstOk \/ secondOk
       THEN /\ Persist([current_phase |-> "1_auth", status |-> "in_progress"])
            /\ pc' = "auth"
            /\ UNCHANGED outcome
       ELSE /\ Persist([status |-> "paused_at_auth", current_phase |-> "0_env_check"])
            /\ Return("returned")
  /\ UNCHANGED <<invocations, entryPhase, local, repos, projects, created,
                 rollbackStack, executed, secrets>>
  /\ UNCHANGED <<svars, fvars>>

\* a reset that forgets the hosting token slot, as the phase-4 reset does
ResetState_keepsVercelToken ==
  /\ pc = "idle"
  /\ invocations < MaxInvocations
  /\ file' = reset(FS).file
  /\ tmp' = reset(FS).tmp
  /\ secrets' = secrets \ (SecretKeys \ {"manifold.vercel.token"})
  /\ outcome' = "reset"
  /\ UNCHANGED <<pc, invocations, entryPhase, stream, local, repos,
                 projects, created, rollbackStack, executed>>
  /\ UNCHANGED <<svars, fvars>>

\* resetState: delete the state file and the five secret slots
ResetState ==
  /\ pc = "idle"
  /\ invocations < MaxInvocations
  /\ file' = reset(FS).file
  /\ tmp' = reset(FS).tmp
  /\ secrets' = secrets \ SecretKeys
  /\ outcome' = "reset"
  /\ UNCHANGED <<pc, invocations, entryPhase, stream, local, repos,
                 projects, created, rollbackStack, executed>>
  /\ UNCHANGED <<svars, fvars>>

\* a re-verification that keeps the stored access token when it fails
AuthCheck_keepsAccessToken(ghOk, vercelOk, existingOk) ==
  /\ pc = "auth"
  /\ stream' = Append(stream, "1_auth")
  /\ LET state == file.doc
         existingAccessToken == state.credentials.supabase_access_token
         existingProjectUrl == state.credentials.supabase_url
         existingPublishableKey == state.credentials.supabase_publishable_key
         hasExisting == /\ Truthy(existingAccessToken)
                        /\ Truthy(existingProjectUrl)
                        /\ Truthy(existingPublishableKey)
         ref == ParseRef(existingProjectUrl)
         supabaseOk == hasExisting /\ existingOk
     IN  /\ IF hasExisting
              THEN IF existingOk
                     THEN IF Truthy(ref)
                            THEN Persist([resources |-> [supabase_ref |-> ref]])
                            ELSE UNCHANGED <<file, tmp>>
                     ELSE Persist([credentials |->
                                     [ supabase_url |-> Null,
                                       supabase_publishable_key |-> Null ]])
              ELSE UNCHANGED <<file, tmp>>
         /\ local' = [local EXCEPT !.ghOk = ghOk, !.vercelOk = vercelOk,
                                   !.supabaseOk = supabaseOk]
         /\ pc' = IF supabaseOk THEN "auth_decide" ELSE "auth_collect"
  /\ UNCHANGED <<invocations, outcome, entryPhase, repos, projects, created,
                 rollbackStack, executed, secrets>>
  /\ UNCHANGED <<svars, fvars>>

\* runAuthHandshake, lines 171-206: the CLI checks and the silent
\* re-verification of stored backend credentials
AuthCheck(ghOk, vercelOk, existingOk) ==
  /\ pc = "auth"
  /\ stream' = Append(stream, "1_auth")
  /\ LET state == file.doc
         existingAccessToken == state.credentials.supabase_access_token
         existingProjectUrl == state.credentials.supabase_url
         existingPublishableKey == state.credentials.supabase_publishable_key
         hasExisting == /\ Truthy(existingAccessToken)
                        /\ Truthy(existingProjectUrl)
                        /\ Truthy(existingPublishableKey)
         ref == ParseRef(existingProjectUrl)
         supabaseOk == hasExisting /\ existingOk
     IN  /\ IF hasExisting
              THEN IF existingOk
                     THEN IF Truthy(ref)
                            THEN Persist([resources |-> [supabase_ref |-> ref]])
                            ELSE UNCHANGED <<file, tmp>>
                     ELSE Persist([credentials |->
                                     [ supabase_access_token |-> Null,
                                       supabase_url |-> Null,
                                       supabase_publishable_key |-> Null ]])
              ELSE UNCHANGED <<file, tmp>>
         /\ local' = [local EXCEPT !.ghOk = ghOk, !.vercelOk = vercelOk,
                                   !.supabaseOk = supabaseOk]
         /\ pc' = IF supabaseOk THEN "auth_decide" ELSE "auth_collect"
  /\ UNCHANGED <<invocations, outcome, entryPhase, repos, projects, created,
                 rollbackStack, executed, secrets>>
  /\ UNCHANGED <<svars, fvars>>

\* a collection that reports verified credentials without storing them
AuthCollect_storesNothing(accessToken, projectUrl, publishableKey, verifyOk) ==
  /\ pc = "auth_collect"
  /\ local' = [local EXCEPT !.supabaseOk =
                  accessToken # "" /\ projectUrl # "" /\ publishableKey # ""
                  /\ verifyOk]
  /\ pc' = "auth_decide"
  /\ UNCHANGED <<file, tmp, invocations, outcome, entryPhase, stream, repos,
                 projects, created, rollbackStack, executed, secrets>>
  /\ UNCHANGED <<svars, fvars>>

\* a patch that writes the reference only when one was parsed, as the silent
\* re-verification does
CollectPatch_guarded(ref, normalizedUrl, publishableKey, accessToken) ==
  IF Truthy(ref)
    THEN [ resources |-> [supabase_ref |-> ref],
           credentials |-> [ supabase_url |-> normalizedUrl,
                             supabase_publishable_key |-> publishableKey,
                             supabase_access_token |-> accessToken ] ]
    ELSE [ credentials |-> [ supabase_url |-> normalizedUrl,
                             supabase_publishable_key |-> publishableKey,
                             supabase_access_token |-> accessToken ] ]

\* runAuthHandshake, lines 275-285: the patch that stores verified answers
CollectPatch(ref, normalizedUrl, publishableKey, accessToken) ==
  [ resources |-> [supabase_ref |-> ref],
    credentials |-> [ supabase_url |-> normalizedUrl,
                      supabase_publishable_key |-> publishableKey,
                      supabase_access_token |-> accessToken ] ]

\* runAuthHandshake, lines 208-297: interactive collection of the backend
\* credentials; verifyOk is the result of verifySupabaseProjectApi
AuthCollect(accessToken, projectUrl, publishableKey, verifyOk) ==
  /\ pc = "auth_collect"
  /\ LET answered == accessToken # "" /\ projectUrl # "" /\ publishableKey # ""
         normalizedUrl == NormalizeUrl(projectUrl)
         ref == ParseRef(normalizedUrl)
         supabaseOk == answered /\ verifyOk
     IN  /\ IF supabaseOk
              THEN Persist(CollectPatch(ref, normalizedUrl, publishableKey,
                                        accessToken))
              ELSE UNCHANGED <<file, tmp>>
         /\ local' = [local EXCEPT !.supabaseOk = supabaseOk]
  /\ pc' = "auth_decide"
  /\ UNCHANGED <<invocations, outcome, entryPhase, stream, repos, projects,
                 created, rollbackStack, executed, secrets>>
  /\ UNCHANGED <<svars, fvars>>

\* a handshake that goes on without a verified backend
AuthVercelToken_ignoresBackend(vercelToken) ==
  /\ pc = "auth_decide"
  /\ local.ghOk /\ local.vercelOk
  /\ IF vercelToken # ""
       THEN Persist([credentials |-> [vercel_token |-> vercelToken]])
       ELSE UNCHANGED <<file, tmp>>
  /\ pc' = "auth_advance"
  /\ UNCHANGED <<invocations, outcome, entryPhase, stream, local, repos,
                 projects, created, rollbackStack, executed, secrets>>
  /\ UNCHANGED <<svars, fvars>>

\* runAuthHandshake, lines 312-334: the hosting token prompt
AuthVercelToken(vercelToken) ==
  /\ pc = "auth_decide"
  /\ local.ghOk /\ local.vercelOk /\ local.supabaseOk
  /\ IF vercelToken # ""
       THEN Persist([credentials |-> [vercel_token |-> vercelToken]])
       ELSE UNCHANGED <<file, tmp>>
  /\ pc' = "auth_advance"
  /\ UNCHANGED <<invocations, outcome, entryPhase, stream, local, repos,
                 projects, created, rollbackStack, executed, secrets>>
  /\ UNCHANGED <<svars, fvars>>

\* runAuthHandshake, lines 336-339
AuthAdvance ==
  /\ pc = "auth_advance"
  /\ Persist([current_phase |-> "2_scaffold", status |-> "in_progress"])
  /\ pc' = "scaffold"
  /\ UNCHANGED <<invocations, outcome, entryPhase, stream, local, repos,
                 projects, created, rollbackStack, executed, secrets>>
  /\ UNCHANGED <<svars, fvars>>

\* a handshake that returns on a failed check without recording the pause
AuthPause_keepsStatus ==
  /\ pc = "auth_decide"
  /\ ~(local.ghOk /\ local.vercelOk /\ local.supabaseOk)
  /\ Return("returned")
  /\ UNCHANGED <<file, tmp, invocations, entryPhase, stream, local, repos,
                 projects, created, rollbackStack, executed, secrets>>
  /\ UNCHANGED <<svars, fvars>>

\* runAuthHandshake, lines 342-353
AuthPause ==
  /\ pc = "auth_decide"
  /\ ~(local.ghOk /\ local.vercelOk /\ local.supabaseOk)
  /\ Persist([current_phase |-> "1_auth", status |-> "paused_at_auth"])
  /\ Return("returned")
  /\ UNCHANGED <<invocations, entryPhase, stream, local, repos, projects,
                 created, rollbackStack, executed, secrets>>
  /\ UNCHANGED <<svars, fvars>>

\* what the handler sees of the scaffolding result: some install failed, or none
ScaffoldResults == {"ok", "install_failed"}

\* a phase 2 that goes on to provisioning whatever the installs reported
Scaffold_continuesAfterFailure(result) ==
  /\ pc = "scaffold"
  /\ stream' = Append(stream, "2_scaffold")
  /\ local' = [local EXCEPT !.projectName = file.doc.config.project_name,
                            !.installFailed = (result = "install_failed")]
  /\ Persist([current_phase |-> "3_provision", status |-> "in_progress"])
  /\ pc' = "provision"
  /\ UNCHANGED outcome
  /\ UNCHANGED <<invocations, entryPhase, repos, projects, created,
                 rollbackStack, executed, secrets>>
  /\ UNCHANGED <<svars, fvars>>

\* runLocalScaffolding (phase 2); result is what scaffoldReactSupabaseProject did
Scaffold(result) ==
  /\ pc = "scaffold"
  /\ stream' = Append(stream, "2_scaffold")
  /\ local' = [local EXCEPT !.projectName = file.doc.config.project_name,
                            !.installFailed = (result = "install_failed")]
  /\ CASE result = "install_failed" ->
            /\ Persist([current_phase |-> "2_scaffold", status |-> "paused_at_auth"])
            /\ Return("returned")
       [] result = "ok" ->
            /\ Persist([current_phase |-> "3_provision", status |-> "in_progress"])
            /\ pc' = "provision"
            /\ UNCHANGED outcome
  /\ UNCHANGED <<invocations, entryPhase, repos, projects, created,
                 rollbackStack, executed, secrets>>
  /\ UNCHANGED <<svars, fvars>>

(* --------------------- the provisioner (provision.ts) ---------------- *)

\* the catch block of runProvisioning is entered
Throw == pc' = "prov_rollback"

\* runProvisioningPhase up to the first command of runProvisioning
ProvStart ==
  /\ pc = "provision"
  /\ stream' = Append(stream, "3_provision")
  /\ rollbackStack' = <<>>
  /\ created' = {}
  /\ executed' = <<>>
  /\ local' = [local EXCEPT !.githubRepo = Null, !.vercelProjectId = Null,
                            !.vercelCreated = FALSE,
                            !.resultOk = FALSE, !.issued = {}, !.failed = {},
                            !.registered = <<>>, !.output = <<>>,
                            !.existedAtStart =
                               {r \in {"repo"} : FullRepo(local.projectName) \in repos}
                               \cup {r \in {"project"} : local.projectName \in projects}]
  /\ pc' = "prov_resolve"
  /\ UNCHANGED <<file, tmp, invocations, outcome, entryPhase, repos, projects,
                 secrets>>
  /\ UNCHANGED <<svars, fvars>>

\* ensureGitHubRepo, lines 119-129: local repository and acting identity
ProvResolve(ok) ==
  /\ pc = "prov_resolve"
  /\ IF ok THEN pc' = "prov_repo_view" ELSE Throw
  /\ local' = [local EXCEPT !.issued = @ \cup {"gh api user"},
                            !.failed = IF ok THEN @ ELSE @ \cup {"gh api user"}]
  /\ UNCHANGED <<file, tmp, invocations, outcome, entryPhase, stream,
                 repos, projects, created, rollbackStack, executed, secrets>>
  /\ UNCHANGED <<svars, fvars>>

\* a reuse branch that registers the deletion of the repository it found
ProvRepoView_registers(viewOk) ==
  /\ pc = "prov_repo_view"
  /\ viewOk => FullRepo(local.projectName) \in repos
  /\ IF viewOk
       THEN /\ local' = [local EXCEPT !.githubRepo = FullRepo(local.projectName),
                                      !.issued = @ \cup {"gh repo view"},
                                      !.registered =
                                         Append(@, CmdRepoDelete(local.projectName))]
            /\ rollbackStack' = Append(rollbackStack, CmdRepoDelete(local.projectName))
            /\ pc' = "prov_vercel_inspect"
       ELSE /\ pc' = "prov_repo_create"
            /\ local' = [local EXCEPT !.issued = @ \cup {"gh repo view"},
                                      !.failed = @ \cup {"gh repo view"}]
            /\ UNCHANGED rollbackStack
  /\ UNCHANGED <<file, tmp, invocations, outcome, entryPhase, stream, repos,
                 projects, created, executed, secrets>>
  /\ UNCHANGED <<svars, fvars>>

\* ensureGitHubRepo, lines 131-136: `gh repo view` can succeed only for a
\* repository that exists
ProvRepoView(viewOk) ==
  /\ pc = "prov_repo_view"
  /\ viewOk => FullRepo(local.projectName) \in repos
  /\ IF viewOk
       THEN /\ local' = [local EXCEPT !.githubRepo = FullRepo(local.projectName),
                                      !.issued = @ \cup {"gh repo view"}]
            /\ pc' = "prov_vercel_inspect"
       ELSE /\ pc' = "prov_repo_create"
            /\ local' = [local EXCEPT !.issued = @ \cup {"gh repo view"},
                                      !.failed = @ \cup {"gh repo view"}]
  /\ UNCHANGED <<file, tmp, invocations, outcome, entryPhase, stream, repos,
                 projects, created, rollbackStack, executed, secrets>>
  /\ UNCHANGED <<svars, fvars>>

\* ensureGitHubRepo, lines 138-162: `gh repo create` can succeed only for a
\* repository that does not exist yet; the commit and the push are best-effort
ProvRepoCreate(createOk) ==
  /\ pc = "prov_repo_create"
  /\ createOk => FullRepo(local.projectName) \notin repos
  /\ IF createOk
       THEN /\ repos' = repos \cup {FullRepo(local.projectName)}
            /\ created' = created \cup {<<"repo", local.projectName>>}
            /\ rollbackStack' = Append(rollbackStack, CmdRepoDelete(local.projectName))
            /\ local' = [local EXCEPT !.githubRepo = FullRepo(local.projectName),
                                      !.issued = @ \cup {"gh repo create"},
                                      !.registered =
                                         Append(@, CmdRepoDelete(local.projectName))]
            /\ pc' = "prov_vercel_inspect"
       ELSE /\ Throw
            /\ local' = [local EXCEPT !.issued = @ \cup {"gh repo create"},
                                      !.failed = @ \cup {"gh repo create"}]
            /\ UNCHANGED <<repos, created, rollbackStack>>
  /\ UNCHANGED <<file, tmp, invocations, outcome, entryPhase, stream, projects,
                 executed, secrets>>
  /\ UNCHANGED <<svars, fvars>>

\* ensureVercelProject, lines 166-169 and 177-179
ProvVercelInspect(inspectOk) ==
  /\ pc = "prov_vercel_inspect"
  /\ inspectOk => local.projectName \in projects
  /\ pc' = IF inspectOk THEN "prov_vercel_link" ELSE "prov_vercel_add"
  /\ local' = [local EXCEPT !.vercelCreated = FALSE,
                            !.issued = @ \cup {"vercel project inspect"},
                            !.failed = IF inspectOk THEN @
                                       ELSE @ \cup {"vercel project inspect"}]
  /\ UNCHANGED <<file, tmp, invocations, outcome, entryPhase, stream, repos,
                 projects, created, rollbackStack, executed, secrets>>
  /\ UNCHANGED <<svars, fvars>>

\* a creation step that registers the removal of the project it created at
\* once
ProvVercelAdd_registers(addOk) ==
  /\ pc = "prov_vercel_add"
  /\ addOk => local.projectName \notin projects
  /\ LET alreadyExists == local.projectName \in projects
     IN  IF ~addOk /\ ~alreadyExists
           THEN /\ Throw
                /\ local' = [local EXCEPT !.issued = @ \cup {"vercel project add"},
                                          !.failed = @ \cup {"vercel project add"}]
                /\ UNCHANGED <<projects, created, rollbackStack>>
           ELSE /\ projects' = projects \cup {local.projectName}
                /\ created' = IF addOk
                                THEN created \cup {<<"project", local.projectName>>}
                                ELSE created
                /\ rollbackStack' =
                     IF ~alreadyExists
                       THEN Append(rollbackStack, CmdProjectRm(local.projectName))
                       ELSE rollbackStack
                /\ local' = [local EXCEPT !.vercelCreated = FALSE,
                                          !.issued = @ \cup {"vercel project add"},
                                          !.failed = IF addOk THEN @
                                                     ELSE @ \cup {"vercel project add"},
                                          !.registered =
                                             IF ~alreadyExists
                                               THEN Append(@, CmdProjectRm(local.projectName))
                                               ELSE @]
                /\ pc' = "prov_vercel_link"
  /\ UNCHANGED <<file, tmp, invocations, outcome, entryPhase, stream, repos,
                 executed, secrets>>
  /\ UNCHANGED <<svars, fvars>>

\* ensureVercelProject, lines 170-176: `vercel project add` answers
\* "already exists" exactly when the project exists, and can succeed otherwise
ProvVercelAdd(addOk) ==
  /\ pc = "prov_vercel_add"
  /\ addOk => local.projectName \notin projects
  /\ LET alreadyExists == local.projectName \in projects
     IN  IF ~addOk /\ ~alreadyExists
           THEN /\ Throw
                /\ local' = [local EXCEPT !.issued = @ \cup {"vercel project add"},
                                          !.failed = @ \cup {"vercel project add"}]
                /\ UNCHANGED <<projects, created>>
           ELSE /\ projects' = projects \cup {local.projectName}
                /\ created' = IF addOk
                                THEN created \cup {<<"project", local.projectName>>}
                                ELSE created
                /\ local' = [local EXCEPT !.vercelCreated = ~alreadyExists,
                                          !.issued = @ \cup {"vercel project add"},
                                          !.failed = IF addOk THEN @
                                                     ELSE @ \cup {"vercel project add"}]
                /\ pc' = "prov_vercel_link"
  /\ UNCHANGED <<file, tmp, invocations, outcome, entryPhase, stream, repos,
                 rollbackStack, executed, secrets>>
  /\ UNCHANGED <<svars, fvars>>

\* a link step that registers the removal of the project whoever created it
ProvVercelLink_alwaysRegisters(linkOk, tolerated) ==
  /\ pc = "prov_vercel_link"
  /\ IF ~linkOk /\ ~tolerated
       THEN /\ Throw
            /\ local' = [local EXCEPT !.issued = @ \cup {"vercel link"},
                                      !.failed = @ \cup {"vercel link"}]
            /\ UNCHANGED rollbackStack
       ELSE /\ rollbackStack' = Append(rollbackStack, CmdProjectRm(local.projectName))
            /\ local' = [local EXCEPT !.resultOk = TRUE,
                                      !.vercelProjectId = local.projectName,
                                      !.issued = @ \cup {"vercel link"},
                                      !.registered =
                                         Append(@, CmdProjectRm(local.projectName))]
            /\ pc' = "prov_persist"
  /\ UNCHANGED <<file, tmp, invocations, outcome, entryPhase, stream, repos,
                 projects, created, executed, secrets>>
  /\ UNCHANGED <<svars, fvars>>

\* ensureVercelProject, lines 181-191, and the return of runProvisioning;
\* tolerated = the output says the directory is already linked
ProvVercelLink(linkOk, tolerated) ==
  /\ pc = "prov_vercel_link"
  /\ IF ~linkOk /\ ~tolerated
       THEN /\ Throw
            /\ local' = [local EXCEPT !.issued = @ \cup {"vercel link"},
                                      !.failed = @ \cup {"vercel link"}]
            /\ UNCHANGED rollbackStack
       ELSE /\ rollbackStack' = IF local.vercelCreated
                                  THEN Append(rollbackStack, CmdProjectRm(local.projectName))
                                  ELSE rollbackStack
            /\ local' = [local EXCEPT !.resultOk = TRUE,
                                      !.vercelProjectId = local.projectName,
                                      !.issued = @ \cup {"vercel link"},
                                      !.registered =
                                         IF local.vercelCreated
                                           THEN Append(@, CmdProjectRm(local.projectName))
                                           ELSE @]
            /\ pc' = "prov_persist"
  /\ UNCHANGED <<file, tmp, invocations, outcome, entryPhase, stream, repos,
                 projects, created, executed, secrets>>
  /\ UNCHANGED <<svars, fvars>>

\* the remote effect of a compensation command that succeeded
ApplyRepoDelete(rs, command) == rs \ {command[2]}
ApplyProjectRm(ps, command) == ps \ {command[2]}

\* runRollback, line 53: the line logged for an executed compensation
RollbackLine(ok, command) ==
  <<IF ok THEN "rollback ok" ELSE "rollback warning", command>>

\* a loop that takes the oldest command first
PopIndex_shift(stack) == 1

\* runRollback, line 39: Array.pop takes the last element
PopIndex(stack) == Len(stack)

RemoveAt(stack, i) == SubSeq(stack, 1, i - 1) \o SubSeq(stack, i + 1, Len(stack))

\* a loop that gives up at the first compensation that fails
ProvRollbackStep_stopsOnFailure(commandOk) ==
  /\ pc = "prov_rollback"
  /\ rollbackStack # <<>>
  /\ LET command == rollbackStack[PopIndex(rollbackStack)]
     IN  /\ rollbackStack' = IF commandOk
                               THEN RemoveAt(rollbackStack, PopIndex(rollbackStack))
                               ELSE <<>>
         /\ executed' = Append(executed, command)
         /\ repos' = IF commandOk /\ command[1] = "gh repo delete"
                       THEN ApplyRepoDelete(repos, command) ELSE repos
         /\ projects' = IF commandOk /\ command[1] = "vercel project rm"
                          THEN ApplyProjectRm(projects, command) ELSE projects
         /\ local' = [local EXCEPT !.output = Append(@, RollbackLine(commandOk, command))]
  /\ UNCHANGED <<file, tmp, pc, invocations, outcome, entryPhase, stream,
                 created, secrets>>
  /\ UNCHANGED <<svars, fvars>>

\* runRollback, one turn of the loop: pop the last command and execute it
ProvRollbackStep(commandOk) ==
  /\ pc = "prov_rollback"
  /\ rollbackStack # <<>>
  /\ LET command == rollbackStack[PopIndex(rollbackStack)]
     IN  /\ rollbackStack' = RemoveAt(rollbackStack, PopIndex(rollbackStack))
         /\ executed' = Append(executed, command)
         /\ repos' = IF commandOk /\ command[1] = "gh repo delete"
                       THEN ApplyRepoDelete(repos, command) ELSE repos
         /\ projects' = IF commandOk /\ command[1] = "vercel project rm"
                          THEN ApplyProjectRm(projects, command) ELSE projects
         /\ local' = [local EXCEPT !.output = Append(@, RollbackLine(commandOk, command))]
  /\ UNCHANGED <<file, tmp, pc, invocations, outcome, entryPhase, stream,
                 created, secrets>>
  /\ UNCHANGED <<svars, fvars>>

\* runRollback has emptied the stack; runProvisioning returns ok=false
ProvRollbackDone ==
  /\ pc = "prov_rollback"
  /\ rollbackStack = <<>>
  /\ local' = [local EXCEPT !.resultOk = FALSE, !.githubRepo = Null,
                            !.vercelProjectId = Null]
  /\ pc' = "prov_persist"
  /\ UNCHANGED <<file, tmp, invocations, outcome, entryPhase, stream, repos,
                 projects, created, rollbackStack, executed, secrets>>
  /\ UNCHANGED <<svars, fvars>>

\* a failure branch that leaves the stored rollback stack as it was
ProvPersist_keepsStoredStack ==
  /\ pc = "prov_persist"
  /\ IF ~local.resultOk
       THEN /\ Persist([ current_phase |-> "3_provision",
                         status |-> "failed" ])
            /\ Return("returned")
       ELSE /\ Persist([ current_phase |-> "4_env_wiring",
                         status |-> "in_progress",
                         resources |-> [ github_repo |-> local.githubRepo,
                                         vercel_project_id |-> local.vercelProjectId ],
                         rollback_stack |-> rollbackStack ])
            /\ pc' = "env_wiring"
            /\ UNCHANGED outcome
  /\ UNCHANGED <<invocations, entryPhase, stream, local, repos, projects,
                 created, rollbackStack, executed, secrets>>
  /\ UNCHANGED <<svars, fvars>>

\* runProvisioningPhase, lines 391-412: persist the result of runProvisioning
ProvPersist ==
  /\ pc = "prov_persist"
  /\ IF ~local.resultOk
       THEN /\ Persist([ current_phase |-> "3_provision",
                         status |-> "failed",
                         rollback_stack |-> <<>> ])
            /\ Return("returned")
       ELSE /\ Persist([ current_phase |-> "4_env_wiring",
                         status |-> "in_progress",
                         resources |-> [ github_repo |-> local.githubRepo,
                                         vercel_project_id |-> local.vercelProjectId ],
                         rollback_stack |-> rollbackStack ])
            /\ pc' = "env_wiring"
            /\ UNCHANGED outcome
  /\ UNCHANGED <<invocations, entryPhase, stream, local, repos, projects,
                 created, rollbackStack, executed, secrets>>
  /\ UNCHANGED <<svars, fvars>>

(* ------------------- phases 4 and 5 (manifold.ts) -------------------- *)

\* a phase-4 reset that forgets the credentials but keeps the resources
WiringResetPatch_keepsResources ==
  [ current_phase |-> "1_auth",
    status |-> "in_progress",
    credentials |-> [ vercel_token |-> Null,
                      supabase_access_token |-> Null,
                      supabase_url |-> Null,
                      supabase_publishable_key |-> Null ] ]

\* runEnvWiringPhase, lines 443-458: the patch written when a value is missing
WiringResetPatch ==
  [ current_phase |-> "1_auth",
    status |-> "in_progress",
    resources |-> [ github_repo |-> Null,
                    vercel_project_id |-> Null,
                    supabase_ref |-> Null ],
    credentials |-> [ vercel_token |-> Null,
                      supabase_access_token |-> Null,
                      supabase_url |-> Null,
                      supabase_publishable_key |-> Null ] ]

\* a phase 4 that takes the reset branch whatever the stored values are
EnvWiring_alwaysResets(writeOk) ==
  /\ pc = "env_wiring"
  /\ stream' = Append(stream, "4_env_wiring")
  /\ secrets' = secrets \ { "manifold.supabase.pat",
                            "manifold.supabase.projectUrl",
                            "manifold.supabase.publishableKey",
                            "manifold.supabase.accessToken" }
  /\ Persist(WiringResetPatch)
  /\ pc' = "auth"
  /\ UNCHANGED <<outcome, local>>
  /\ UNCHANGED <<invocations, entryPhase, repos, projects, created,
                 rollbackStack, executed>>
  /\ UNCHANGED <<svars, fvars>>

\* runEnvWiringPhase (phase 4); writeOk = wireProjectEnvironment wrote both
\* files; a write that rejects may have written the first file already
EnvWiring(writeOk) ==
  /\ pc = "env_wiring"
  /\ stream' = Append(stream, "4_env_wiring")
  /\ LET state == file.doc
         missing == \/ ~Truthy(state.resources.github_repo)
                    \/ ~Truthy(state.resources.vercel_project_id)
                    \/ ~Truthy(state.credentials.supabase_url)
                    \/ ~Truthy(state.credentials.supabase_publishable_key)
     IN  IF missing
           THEN /\ secrets' = secrets \ { "manifold.supabase.pat",
                                          "manifold.supabase.projectUrl",
                                          "manifold.supabase.publishableKey",
                                          "manifold.supabase.accessToken" }
                /\ Persist(WiringResetPatch)
                /\ pc' = "auth"
                /\ UNCHANGED <<outcome, local>>
           ELSE /\ UNCHANGED secrets
                /\ IF writeOk
                     THEN /\ Persist([ current_phase |-> "5_deploy",
                                       status |-> "in_progress" ])
                          /\ local' = [local EXCEPT !.envWritten = TRUE]
                          /\ pc' = "deploy"
                          /\ UNCHANGED outcome
                     ELSE /\ Return("threw")
                          /\ \E firstWritten \in BOOLEAN :
                               local' = [local EXCEPT !.envWritten = firstWritten]
                          /\ UNCHANGED <<file, tmp>>
  /\ UNCHANGED <<invocations, entryPhase, repos, projects, created,
                 rollbackStack, executed>>
  /\ UNCHANGED <<svars, fvars>>

\* a phase 5 that reports completion whatever the deployment returned
Deploy_alwaysComplete(deployOk) ==
  /\ pc = "deploy"
  /\ stream' = Append(stream, "5_deploy")
  /\ local' = [local EXCEPT !.deployOk = deployOk]
  /\ Persist([current_phase |-> "5_deploy", status |-> "complete"])
  /\ Return("returned")
  /\ UNCHANGED <<invocations, entryPhase, repos, projects, created,
                 rollbackStack, executed, secrets>>
  /\ UNCHANGED <<svars, fvars>>

\* runDeploymentPhase (phase 5); deployOk = deployResult.ok
Deploy(deployOk) ==
  /\ pc = "deploy"
  /\ stream' = Append(stream, "5_deploy")
  /\ IF deployOk
       THEN Persist([current_phase |-> "5_deploy", status |-> "complete"])
       ELSE Persist([current_phase |-> "5_deploy", status |-> "paused_at_auth"])
  /\ local' = [local EXCEPT !.deployOk = deployOk]
  /\ Return("returned")
  /\ UNCHANGED <<invocations, entryPhase, repos, projects, created,
                 rollbackStack, executed, secrets>>
  /\ UNCHANGED <<svars, fvars>>

(* ------------------------- specification Spec ------------------------ *)

Callers == {1, 2}

StoreIdle ==
  /\ spc = [i \in Callers |-> "idle"]
  /\ scalls = [i \in Callers |-> 0]
  /\ spatch = [i \in Callers |-> <<>>]
  /\ scur = [i \in Callers |-> NoDoc]
  /\ snext = [i \in Callers |-> NoDoc]
  /\ sfd = [i \in Callers |-> "none"]
  /\ overlapped = FALSE
  /\ crashed = FALSE

\* no pure function is under examination
NotCalled == [done |-> FALSE, value |-> <<>>]
Returned(value) == [done |-> TRUE, value |-> value]

FunctionIdle ==
  /\ input = <<>>
  /\ output = NotCalled

OrchestratorIdle ==
  /\ pc = "idle"
  /\ invocations = 0
  /\ outcome = "none"
  /\ entryPhase = "none"
  /\ stream = <<>>
  /\ local = LocalInit
  /\ created = {}
  /\ rollbackStack = <<>>
  /\ executed = <<>>

\* a fresh workspace; the remote accounts may already hold a repository or a
\* hosting project of either name
Init ==
  /\ file = Absent
  /\ tmp = Absent
  /\ OrchestratorIdle
  /\ repos \in SUBSET {FullRepo(n) : n \in ProjectNames}
  /\ projects \in SUBSET ProjectNames
  /\ secrets = SecretKeys
  /\ StoreIdle
  /\ FunctionIdle

Next ==
  \/ \E projectName \in NameInputs : HandleSetup(projectName)
  \/ \E firstOk \in BOOLEAN, secondOk \in BOOLEAN : Bootstrap(firstOk, secondOk)
  \/ ResetState
  \/ \E ghOk \in BOOLEAN, vercelOk \in BOOLEAN, existingOk \in BOOLEAN :
       AuthCheck(ghOk, vercelOk, existingOk)
  \/ \E accessToken \in TokenAnswers, projectUrl \in UrlAnswers,
        publishableKey \in KeyAnswers, verifyOk \in BOOLEAN :
       AuthCollect(accessToken, projectUrl, publishableKey, verifyOk)
  \/ \E vercelToken \in VercelTokenAnswers : AuthVercelToken(vercelToken)
  \/ AuthAdvance
  \/ AuthPause
  \/ \E result \in ScaffoldResults : Scaffold(result)
  \/ ProvStart
  \/ \E ok \in BOOLEAN : ProvResolve(ok)
  \/ \E viewOk \in BOOLEAN : ProvRepoView(viewOk)
  \/ \E createOk \in BOOLEAN : ProvRepoCreate(createOk)
  \/ \E inspectOk \in BOOLEAN : ProvVercelInspect(inspectOk)
  \/ \E addOk \in BOOLEAN : ProvVercelAdd(addOk)
  \/ \E linkOk \in BOOLEAN, tolerated \in BOOLEAN : ProvVercelLink(linkOk, tolerated)
  \/ \E commandOk \in BOOLEAN : ProvRollbackStep(commandOk)
  \/ ProvRollbackDone
  \/ ProvPersist
  \/ \E writeOk \in BOOLEAN : EnvWiring(writeOk)
  \/ \E deployOk \in BOOLEAN : Deploy(deployOk)

Spec == Init /\ [][Next]_vars

(* ----------------------- specification SpecStore --------------------- *)
(* StateManager.patch at the grain of its awaits, on a POSIX file system:  *)
(* read, open the temp path (create or truncate), write, rename.  Two      *)
(* callers may overlap; the process may crash during a persist.            *)

\* documents the orchestrator leaves in the store
SeedDocs ==
  LET d0 == createDefaultState("app", "flask", 1)
      d1 == MergeDoc(d0, [ current_phase |-> "5_deploy",
                           status |-> "complete",
                           resources |-> [ github_repo |-> FullRepo("app"),
                                           vercel_project_id |-> "app",
                                           supabase_ref |-> "ref1" ],
                           credentials |-> [ supabase_url |-> "https://ref1",
                                             supabase_publishable_key |-> "sb_key",
                                             supabase_access_token |-> "sbp_tok" ],
                           rollback_stack |-> <<CmdRepoDelete("app")>> ])
  IN  {d0, d1}

\* arguments of patch(): shapes the orchestrator uses, and partial ones
PatchInputs ==
  { [status |-> "paused_at_auth", current_phase |-> "1_auth"],
    [credentials |-> [vercel_token |-> "vercel_tok"]],
    [credentials |-> [supabase_url |-> "https://short"]],
    [ resources |-> [github_repo |-> FullRepo("my-app")],
      rollback_stack |-> <<CmdRepoDelete("my-app"), CmdProjectRm("my-app")>> ],
    [config |-> [stack |-> [backend |-> "django"]]] }

PersistStages == {"open", "write", "flush", "rename"}

\* content left at the path a descriptor is linked to
WriteAt(fs, target, content) ==
  CASE target = "tmp" -> WriteTmp(fs, content)
    [] target = "file" -> [fs EXCEPT !.file = content]
    [] OTHER -> fs

SetFS(fs) ==
  /\ file' = fs.file
  /\ tmp' = fs.tmp

\* a caller enters patch(p)
SStart(i, p) ==
  /\ ~crashed
  /\ spc[i] \in {"idle", "done", "failed"}
  /\ scalls[i] < MaxPatchCalls
  /\ spc' = [spc EXCEPT ![i] = "read"]
  /\ scalls' = [scalls EXCEPT ![i] = @ + 1]
  /\ spatch' = [spatch EXCEPT ![i] = p]
  /\ overlapped' = (overlapped \/ \E j \in Callers \ {i} : spc[j] \in PersistStages \cup {"read"})
  /\ UNCHANGED <<file, tmp, scur, snext, sfd, crashed>>
  /\ UNCHANGED <<ovars, fvars>>

\* patch, lines 99-120: const current = await this.read(); const next = {...}
SRead(i) ==
  /\ ~crashed
  /\ spc[i] = "read"
  /\ IF Readable(file)
       THEN /\ scur' = [scur EXCEPT ![i] = file.doc]
            /\ snext' = [snext EXCEPT ![i] = MergeDoc(file.doc, spatch[i])]
            /\ spc' = [spc EXCEPT ![i] = "open"]
       ELSE /\ spc' = [spc EXCEPT ![i] = "failed"]
            /\ UNCHANGED <<scur, snext>>
  /\ UNCHANGED <<file, tmp, scalls, spatch, sfd, overlapped, crashed>>
  /\ UNCHANGED <<ovars, fvars>>

\* writeAtomic, line 132: writeFile opens the temp path, creating or truncating it
SOpen(i) ==
  /\ ~crashed
  /\ spc[i] = "open"
  /\ SetFS(WriteTmp(FS, Empty))
  /\ sfd' = [sfd EXCEPT ![i] = "tmp"]
  /\ spc' = [spc EXCEPT ![i] = "write"]
  /\ UNCHANGED <<scalls, spatch, scur, snext, overlapped, crashed>>
  /\ UNCHANGED <<ovars, fvars>>

\* writeAtomic, line 132: a first part of the payload reaches the disk
SWritePart(i) ==
  /\ ~crashed
  /\ spc[i] = "write"
  /\ SetFS(WriteAt(FS, sfd[i], Partial(snext[i])))
  /\ spc' = [spc EXCEPT ![i] = "flush"]
  /\ UNCHANGED <<scalls, spatch, scur, snext, sfd, overlapped, crashed>>
  /\ UNCHANGED <<ovars, fvars>>

\* writeAtomic, line 132: the whole payload is on disk and the file is closed
SWriteAll(i) ==
  /\ ~crashed
  /\ spc[i] \in {"write", "flush"}
  /\ SetFS(WriteAt(FS, sfd[i], Full(snext[i])))
  /\ sfd' = [sfd EXCEPT ![i] = "none"]
  /\ spc' = [spc EXCEPT ![i] = "rename"]
  /\ UNCHANGED <<scalls, spatch, scur, snext, overlapped, crashed>>
  /\ UNCHANGED <<ovars, fvars>>

\* writeAtomic, line 133: rename moves whatever is at the temp path; a file
\* another caller still has open moves with it, the one it replaces is unlinked
SRename(i) ==
  /\ ~crashed
  /\ spc[i] = "rename"
  /\ IF tmp.kind = "absent"
       THEN /\ spc' = [spc EXCEPT ![i] = "failed"]
            /\ UNCHANGED <<file, tmp, sfd>>
       ELSE /\ SetFS(Rename(FS))
            /\ sfd' = [j \in Callers |->
                         CASE sfd[j] = "tmp" -> "file"
                           [] sfd[j] = "file" -> "unlinked"
                           [] OTHER -> sfd[j]]
            /\ spc' = [spc EXCEPT ![i] = "done"]
  /\ UNCHANGED <<scalls, spatch, scur, snext, overlapped, crashed>>
  /\ UNCHANGED <<ovars, fvars>>

\* the process dies while some caller is between opening the temp file and
\* the return of rename
SCrash ==
  /\ ~crashed
  /\ \E i \in Callers : spc[i] \in PersistStages
  /\ crashed' = TRUE
  /\ UNCHANGED <<file, tmp, spc, scalls, spatch, scur, snext, sfd, overlapped>>
  /\ UNCHANGED <<ovars, fvars>>

InitStore ==
  /\ file \in {Full(d) : d \in SeedDocs}
  /\ tmp = Absent
  /\ OrchestratorIdle
  /\ repos = {}
  /\ projects = {}
  /\ secrets = SecretKeys
  /\ StoreIdle
  /\ FunctionIdle

NextStore ==
  \/ \E i \in Callers, p \in PatchInputs : SStart(i, p)
  \/ \E i \in Callers : SRead(i)
  \/ \E i \in Callers : SOpen(i)
  \/ \E i \in Callers : SWritePart(i)
  \/ \E i \in Callers : SWriteAll(i)
  \/ \E i \in Callers : SRename(i)
  \/ SCrash

SpecStore == InitStore /\ [][NextStore]_vars

(* ------------------------------ claims ------------------------------- *)

Status == file.doc.status
CurrentPhase == file.doc.current_phase

\* the phase whose handler the invocation is executing
PhaseOfPc ==
  CASE pc = "bootstrap" -> "0_env_check"
    [] pc \in {"auth", "auth_collect", "auth_decide", "auth_advance"} -> "1_auth"
    [] pc = "scaffold" -> "2_scaffold"
    [] pc \in {"provision", "prov_resolve", "prov_repo_view", "prov_repo_create",
               "prov_vercel_inspect", "prov_vercel_add", "prov_vercel_link",
               "prov_rollback", "prov_persist"} -> "3_provision"
    [] pc = "env_wiring" -> "4_env_wiring"
    [] pc = "deploy" -> "5_deploy"
    [] OTHER -> "none"

\* C1: an invocation of handleSetup on a workspace whose state already exists
\* starts at the handler of the stored current_phase: the first phase it
\* executes is the one the store held when it was invoked.
C1_ResumesAtStoredPhase ==
  (entryPhase # "none" /\ stream # <<>>) => stream[1] = entryPhase

\* C2: in every change of the persisted state current_phase stays, advances to
\* the immediately following phase from within the handler of the phase it
\* leaves, or is moved back to 1_auth by phase 4; nothing else moves it back.
C2_PhaseMovesForwardOrResets ==
  [][ (Readable(file) /\ Readable(file')) =>
        LET a == PhaseIndex(file.doc.current_phase)
            b == PhaseIndex(file'.doc.current_phase)
        IN  \/ b = a
            \/ b = a + 1 /\ PhaseOfPc = file.doc.current_phase
            \/ b < a /\ pc = "env_wiring" /\ file'.doc.current_phase = "1_auth" ]_vars

\* C3: no failure of an external step escapes handleSetup as an uncaught
\* exception: every invocation that has ended returned normally.
C3_NoUncaughtFault == outcome # "threw"

\* C7: whenever the persisted status is complete, the persisted rollback_stack
\* is empty.
C7_CompleteHasEmptyStack ==
  (Readable(file) /\ Status = "complete") => file.doc.rollback_stack = <<>>

\* C8: a command leaves the persisted rollback_stack only by being executed by
\* a rollback: every command a persisted write drops has been run by runRollback.
C8_CompensationLeavesOnlyExecuted ==
  [][ (Readable(file) /\ Readable(file')) =>
        \A command \in Range(file.doc.rollback_stack) \ Range(file'.doc.rollback_stack) :
           command \in Range(executed') ]_vars

\* the deletion command of a remote resource
DeleteCommand(resource) ==
  IF resource[1] = "repo" THEN CmdRepoDelete(resource[2]) ELSE CmdProjectRm(resource[2])

\* runProvisioning has returned ok=false
ProvisioningAborted == pc = "prov_persist" /\ ~local.resultOk

\* C9: when a provisioning attempt aborts, every remote resource the attempt
\* created before the failure has had its deletion command executed by
\* runRollback, whichever step failed.
C9_AbortDeletesWhatItCreated ==
  ProvisioningAborted =>
    \A resource \in created : DeleteCommand(resource) \in Range(executed)

\* C10: at every point of provisioning and in its result, each command on the
\* rollback stack deletes a remote resource this attempt created; a repository
\* or hosting project that was found and reused has no compensation.
C10_StackHoldsOwnCreationsOnly ==
  \A command \in Range(rollbackStack) :
     \E resource \in created : command = DeleteCommand(resource)

\* a successful attempt that reused the repository and created the hosting project
C10_Witness ==
  /\ pc = "prov_persist"
  /\ local.resultOk
  /\ <<"repo", local.projectName>> \notin created
  /\ <<"project", local.projectName>> \in created
  /\ rollbackStack = <<CmdProjectRm(local.projectName)>>

(* ------------------------- claims on the store ----------------------- *)

TopKeys == {"status", "state_version", "run_id", "current_phase"}
ConfigKeys == {"project_name"}
StackKeys == {"frontend", "backend"}
ResourceKeys == {"github_repo", "vercel_project_id", "supabase_ref"}
CredentialKeys == {"vercel_token", "supabase_access_token", "supabase_url",
                   "supabase_publishable_key"}

\* the keys a patch mentions at each level
TopOf(p) == (DOMAIN p) \cap TopKeys
ConfigOf(p) == (DOMAIN SubPatch(p, "config")) \cap ConfigKeys
StackOf(p) == (DOMAIN SubPatch(SubPatch(p, "config"), "stack")) \cap StackKeys
ResourcesOf(p) == (DOMAIN SubPatch(p, "resources")) \cap ResourceKeys
CredentialsOf(p) == (DOMAIN SubPatch(p, "credentials")) \cap CredentialKeys
StackSupplied(p) == "rollback_stack" \in DOMAIN p

\* every field p does not mention has in `after` the value it had in `before`
Frame(before, after, p) ==
  /\ \A k \in TopKeys \ TopOf(p) : after[k] = before[k]
  /\ \A k \in ConfigKeys \ ConfigOf(p) : after.config[k] = before.config[k]
  /\ \A k \in StackKeys \ StackOf(p) : after.config.stack[k] = before.config.stack[k]
  /\ \A k \in ResourceKeys \ ResourcesOf(p) : after.resources[k] = before.resources[k]
  /\ \A k \in CredentialKeys \ CredentialsOf(p) :
        after.credentials[k] = before.credentials[k]
  /\ after.rollback_stack =
       IF StackSupplied(p) THEN p.rollback_stack ELSE before.rollback_stack

\* document d carries every value p mentions
Contains(d, p) ==
  /\ \A k \in TopOf(p) : d[k] = p[k]
  /\ \A k \in ConfigOf(p) : d.config[k] = p.config[k]
  /\ \A k \in StackOf(p) : d.config.stack[k] = p.config.stack[k]
  /\ \A k \in ResourcesOf(p) : d.resources[k] = p.resources[k]
  /\ \A k \in CredentialsOf(p) : d.credentials[k] = p.credentials[k]
  /\ StackSupplied(p) => d.rollback_stack = p.rollback_stack

\* p and q mention no field in common
Disjoint(p, q) ==
  /\ TopOf(p) \cap TopOf(q) = {}
  /\ ConfigOf(p) \cap ConfigOf(q) = {}
  /\ StackOf(p) \cap StackOf(q) = {}
  /\ ResourcesOf(p) \cap ResourcesOf(q) = {}
  /\ CredentialsOf(p) \cap CredentialsOf(q) = {}
  /\ ~(StackSupplied(p) /\ StackSupplied(q))

\* at most one caller has ever used the store
SingleWriter == \E w \in Callers : \A j \in Callers \ {w} : scalls[j] = 0

\* C4: with a single writer, after a crash at any point of a persist the state
\* file holds the complete previous document or the complete new one, never a
\* partial or empty one.
C4_CrashLeavesWholeDocument ==
  (crashed /\ SingleWriter) =>
    \E w \in Callers :
       /\ spc[w] \in PersistStages
       /\ file \in {Full(scur[w]), Full(snext[w])}

\* the crash hit while the temp file held a part of a changed document
C4_Witness ==
  /\ crashed
  /\ SingleWriter
  /\ \E w \in Callers :
       /\ spc[w] = "flush"
       /\ tmp = Partial(snext[w])
       /\ snext[w] # scur[w]
       /\ file = Full(scur[w])

\* C5: a patch(p) that completes without another caller in the way changes
\* only what p mentions: every top-level field and every key of config,
\* config.stack, resources and credentials that p does not mention keeps its
\* value, and rollback_stack is replaced if p supplies it, kept otherwise.
C5_PatchChangesOnlyMentioned ==
  [][ \A i \in Callers :
        (~overlapped /\ spc[i] = "rename" /\ spc'[i] = "done") =>
           Frame(file.doc, file'.doc, spatch[i]) ]_vars

\* a patch of one credential has landed next to credentials it did not mention
C5_Witness ==
  \E i \in Callers :
     /\ spc[i] = "done"
     /\ ~overlapped
     /\ spatch[i] = [credentials |-> [vercel_token |-> "vercel_tok"]]
     /\ file = Full(snext[i])
     /\ file.doc.credentials.vercel_token = "vercel_tok"
     /\ file.doc.credentials.supabase_access_token = "sbp_tok"
     /\ scur[i].credentials.vercel_token = Null

\* each caller has made one patch call and both calls have returned
TwoCallsDone == \A i \in Callers : scalls[i] = 1 /\ spc[i] = "done"

BothUpdatesPresent == \A i \in Callers : Contains(file.doc, spatch[i])

\* C6 (as claimed): when two patch calls that touch disjoint fields overlap,
\* the final persisted state contains both updates.
C6_NoLostUpdate ==
  (TwoCallsDone /\ Disjoint(spatch[1], spatch[2])) => BothUpdatesPresent

\* C6 (amended): when two patch calls that touch disjoint fields do not
\* overlap, the final persisted state contains both updates.
C6_SequentialKeepsBoth ==
  (TwoCallsDone /\ ~overlapped /\ Disjoint(spatch[1], spatch[2])) =>
     BothUpdatesPresent

\* two calls, one after the other, on different keys of credentials
C6_Witness ==
  /\ TwoCallsDone
  /\ ~overlapped
  /\ spatch[1] = [credentials |-> [vercel_token |-> "vercel_tok"]]
  /\ spatch[2] = [credentials |-> [supabase_url |-> "https://short"]]
  /\ BothUpdatesPresent


(* --------------------- specification SpecRollback -------------------- *)
(* runRollback applied to any stack of at most MaxStackLen commands.       *)

Commands == {CmdRepoDelete(n) : n \in ProjectNames} \cup
            {CmdProjectRm(n) : n \in ProjectNames}

StackInputs == UNION {[1..n -> Commands] : n \in 0..MaxStackLen}

\* the state document while phase 3 runs
ProvisioningDoc ==
  MergeDoc(createDefaultState("app", "flask", 1),
           [current_phase |-> "3_provision", status |-> "in_progress"])

InitRollback ==
  /\ file = Full(ProvisioningDoc)
  /\ tmp = Absent
  /\ pc = "prov_rollback"
  /\ invocations = 1
  /\ outcome = "none"
  /\ entryPhase = "none"
  /\ stream = <<"0_env_check", "1_auth", "2_scaffold", "3_provision">>
  /\ rollbackStack \in StackInputs
  /\ local = [LocalInit EXCEPT !.projectName = "app", !.registered = rollbackStack]
  /\ created = {}
  /\ executed = <<>>
  /\ repos \in SUBSET {FullRepo(n) : n \in ProjectNames}
  /\ projects \in SUBSET ProjectNames
  /\ secrets = SecretKeys
  /\ StoreIdle
  /\ FunctionIdle

NextRollback ==
  \/ \E commandOk \in BOOLEAN : ProvRollbackStep(commandOk)
  \/ ProvRollbackDone

SpecRollback == InitRollback /\ [][NextRollback]_vars

(* ------------------------- claims C11 .. C20 ------------------------- *)

Reverse(s) == [i \in 1..Len(s) |-> s[Len(s) + 1 - i]]

\* C11: rollback executes the compensations in the reverse of the order in
\* which they were registered: at every moment the commands registered so far
\* are the ones still on the stack followed by the executed ones read
\* backwards, so a command pushed later is executed earlier.
C11_RollbackRunsInReverse ==
  local.registered = rollbackStack \o Reverse(executed)

\* a rollback has executed two different commands, the later-pushed one first
C11_Witness ==
  /\ pc = "prov_rollback"
  /\ Len(executed) >= 2
  /\ executed[1] # executed[2]
  /\ executed[1] = local.registered[Len(local.registered)]
  /\ executed[2] = local.registered[Len(local.registered) - 1]

\* C12: rollback is best-effort: when runProvisioning has returned ok=false
\* the stack is empty, every registered compensation has been executed even
\* when an earlier one failed, one line per executed command is in the log
\* saying whether it succeeded, a success line stands only for a command that
\* took effect, and the invocation has not thrown.
C12_RollbackIsBestEffort ==
  ProvisioningAborted =>
    /\ rollbackStack = <<>>
    /\ Len(executed) = Len(local.registered)
    /\ Len(local.output) = Len(executed)
    /\ \A i \in DOMAIN executed :
         /\ local.output[i][2] = executed[i]
         /\ local.output[i][1] \in {"rollback ok", "rollback warning"}
         /\ local.output[i][1] = "rollback ok" =>
              /\ executed[i][1] = "gh repo delete" => executed[i][2] \notin repos
              /\ executed[i][1] = "vercel project rm" => executed[i][2] \notin projects
    /\ outcome # "threw"

\* a rollback whose first command failed went on to execute a second one
C12_Witness ==
  /\ ProvisioningAborted
  /\ Len(executed) >= 2
  /\ local.output[1][1] = "rollback warning"
  /\ local.output[2][1] = "rollback ok"

\* the provisioning attempt of this invocation found both the repository and
\* the hosting project in place when it started
BothExisted == local.existedAtStart = {"repo", "project"}

CreateCommands == {"gh repo create", "vercel project add"}

\* runProvisioning has returned, with either result
ProvisioningReturned ==
  /\ "gh api user" \in local.issued
  /\ pc \notin {"prov_resolve", "prov_repo_view", "prov_repo_create",
                 "prov_vercel_inspect", "prov_vercel_add", "prov_vercel_link",
                 "prov_rollback"}

C14_FailedProvisioningIsPersisted ==
  [][ProvisioningAborted =>
       /\ local.githubRepo = Null
       /\ local.vercelProjectId = Null
       /\ rollbackStack = <<>>
       /\ file'.doc.status = "failed"
       /\ file'.doc.current_phase = "3_provision"
       /\ file'.doc.rollback_stack = <<>>
       /\ file'.doc.resources = file.doc.resources
       /\ pc' = "idle"
       /\ outcome' = "returned"
       /\ stream' = stream]_vars

\* a provisioning attempt that had created a resource failed, was rolled back
\* and has been persisted as failed
C14_Witness ==
  /\ pc = "idle"
  /\ outcome = "returned"
  /\ Readable(file)
  /\ Status = "failed"
  /\ CurrentPhase = "3_provision"
  /\ "gh api user" \in local.issued
  /\ ~local.resultOk
  /\ created # {}
  /\ executed # <<>>

(* ---------------------- specification SpecWiring --------------------- *)
(* runEnvWiringPhase entered on any stored document of phase 4, with each  *)
(* of the four values it needs present or null; the invocation then goes   *)
(* on as in Spec.                                                          *)

WiringDocs ==
  { MergeDoc(createDefaultState("app", "flask", 1),
             [ current_phase |-> "4_env_wiring",
               status |-> "in_progress",
               resources |-> [ github_repo |-> githubRepo,
                               vercel_project_id |-> vercelProjectId,
                               supabase_ref |-> "ref1" ],
               credentials |-> [ vercel_token |-> "vercel_tok",
                                 supabase_access_token |-> "sbp_tok",
                                 supabase_url |-> supabaseUrl,
                                 supabase_publishable_key |-> publishableKey ] ]) :
      githubRepo \in {Null, FullRepo("app")},
      vercelProjectId \in {Null, "app"},
      supabaseUrl \in {Null, "https://ref1"},
      publishableKey \in {Null, "sb_key"} }

InitWiring ==
  /\ file \in {Full(d) : d \in WiringDocs}
  /\ tmp = Absent
  /\ pc = "env_wiring"
  /\ invocations = 1
  /\ outcome = "none"
  /\ entryPhase = "none"
  /\ stream = <<>>
  /\ local = [LocalInit EXCEPT !.projectName = "app"]
  /\ created = {}
  /\ rollbackStack = <<>>
  /\ executed = <<>>
  /\ repos \in SUBSET {FullRepo("app")}
  /\ projects \in SUBSET {"app"}
  /\ secrets = SecretKeys
  /\ StoreIdle
  /\ FunctionIdle

SpecWiring == InitWiring /\ [][Next]_vars

\* one of the four values phase 4 needs is null in the stored document
WiringValueMissing ==
  \/ file.doc.resources.github_repo = Null
  \/ file.doc.resources.vercel_project_id = Null
  \/ file.doc.credentials.supabase_url = Null
  \/ file.doc.credentials.supabase_publishable_key = Null

\* C15: when phase 4 starts with github_repo, vercel_project_id, supabase_url
\* or supabase_publishable_key null, its step persists current_phase = 1_auth
\* with every resources and credentials field null, writes no environment
\* file, and continues in phase 1.
C15_MissingValueResetsToAuth ==
  [][(pc = "env_wiring" /\ WiringValueMissing) =>
       /\ file'.doc.current_phase = "1_auth"
       /\ \A k \in ResourceKeys : file'.doc.resources[k] = Null
       /\ \A k \in CredentialKeys : file'.doc.credentials[k] = Null
       /\ local'.envWritten = local.envWritten
       /\ pc' = "auth"]_vars

\* phase 4 has just reset a document that held a backend reference and handed
\* over to phase 1, with no environment file written
C15_Witness ==
  /\ pc = "auth"
  /\ stream = <<"4_env_wiring">>
  /\ CurrentPhase = "1_auth"
  /\ file.doc.resources.supabase_ref = Null
  /\ file.doc.credentials.vercel_token = Null
  /\ ~local.envWritten

\* C16: the step of phase 5 persists status complete exactly when the
\* deployment result is ok and paused_at_auth otherwise, and current_phase is
\* 5_deploy before and after it.
C16_CompleteIffDeployOk ==
  [][pc = "deploy" =>
       /\ file'.doc.status = "complete" <=> local'.deployOk
       /\ ~local'.deployOk => file'.doc.status = "paused_at_auth"
       /\ file.doc.current_phase = "5_deploy"
       /\ file'.doc.current_phase = "5_deploy"]_vars

\* phase 5 has ended after a deployment that was not ok
C16_Witness ==
  /\ pc = "idle"
  /\ stream # <<>>
  /\ stream[Len(stream)] = "5_deploy"
  /\ ~local.deployOk
  /\ Status = "paused_at_auth"
  /\ CurrentPhase = "5_deploy"

\* C17: once github_repo, vercel_project_id or supabase_ref is non-null in
\* the persisted document, no step writes null into it, the explicit resets
\* (resetState, which removes the document, and the reset of phase 4) apart.
C17_ResourcesNeverNulled ==
  [][(Readable(file) /\ Readable(file') /\ pc # "env_wiring") =>
       \A k \in ResourceKeys :
         file.doc.resources[k] # Null => file'.doc.resources[k] # Null]_vars

\* C18: once the state document exists, no step changes its config section
\* (project_name and stack), whatever name a later setup invocation is given.
C18_ConfigNeverChanges ==
  [][(Readable(file) /\ Readable(file')) =>
       file'.doc.config = file.doc.config]_vars

(* --------------------- specification SpecLifecycle ------------------- *)
(* The store's whole-document operations, each one step, in any order, on  *)
(* a workspace whose state file is absent, unparsable or parsable:         *)
(* ensureInitialized, patch and the reset command.                         *)

BackendStacks == {"flask", "fastapi", "django"}

\* what the state file can hold when the store is first used
FileInputs ==
  {Absent, Empty} \cup {Partial(d) : d \in SeedDocs} \cup {Full(d) : d \in SeedDocs}

\* a call of ensureInitialized; spatch keeps its arguments, scur what read()
\* gave and snext the state it returned
EnsureInitialized(projectName, backend) ==
  /\ pc = "idle"
  /\ invocations < MaxInvocations
  /\ LET now == invocations + 1
         fs == ensureInitialized(FS, projectName, backend, now)
     IN  /\ file' = fs.file
         /\ tmp' = fs.tmp
         /\ scur' = [scur EXCEPT ![1] = IF Readable(file) THEN file.doc ELSE NoDoc]
         /\ snext' = [snext EXCEPT ![1] =
                        IF Readable(file) THEN file.doc
                        ELSE createDefaultState(projectName, backend, now)]
  /\ spatch' = [spatch EXCEPT ![1] = [projectName |-> projectName, backend |-> backend]]
  /\ spc' = [spc EXCEPT ![1] = "done"]
  /\ invocations' = invocations + 1
  /\ outcome' = "returned"
  /\ UNCHANGED <<pc, entryPhase, stream, local, repos, projects, created,
                 rollbackStack, executed, secrets>>
  /\ UNCHANGED <<scalls, sfd, overlapped, crashed>>
  /\ UNCHANGED fvars

\* a call of patch on a parsable state file
StorePatch(p) ==
  /\ pc = "idle"
  /\ Readable(file)
  /\ Persist(p)
  /\ outcome' = "returned"
  /\ UNCHANGED <<pc, invocations, entryPhase, stream, local, repos, projects,
                 created, rollbackStack, executed, secrets>>
  /\ UNCHANGED <<svars, fvars>>

InitLifecycle ==
  /\ file \in FileInputs
  /\ tmp = Absent
  /\ OrchestratorIdle
  /\ repos = {}
  /\ projects = {}
  /\ secrets = SecretKeys
  /\ StoreIdle
  /\ FunctionIdle

NextLifecycle ==
  \/ \E projectName \in ProjectNames, backend \in BackendStacks :
       EnsureInitialized(projectName, backend)
  \/ \E p \in PatchInputs : StorePatch(p)
  \/ ResetState

SpecLifecycle == InitLifecycle /\ [][NextLifecycle]_vars

\* a document as createDefaultState builds it, whatever its name and backend
BlankState(d) ==
  /\ d.status = "in_progress"
  /\ d.current_phase = "0_env_check"
  /\ \A k \in ResourceKeys : d.resources[k] = Null
  /\ \A k \in CredentialKeys : d.credentials[k] = Null
  /\ d.rollback_stack = <<>>

\* C19: ensureInitialized returns the existing state and leaves the file as
\* it is when the file parses; when the file is absent or does not parse it
\* persists and returns the default state (in_progress, 0_env_check, every
\* resource and credential null, empty rollback_stack) with the given name
\* and backend.
C19_EnsureInitializedKeepsOrCreates ==
  [][invocations' = invocations + 1 =>
       IF Readable(file)
         THEN /\ file' = file
              /\ snext'[1] = file.doc
         ELSE /\ file' = Full(snext'[1])
              /\ BlankState(snext'[1])
              /\ snext'[1].config.project_name = spatch'[1].projectName
              /\ snext'[1].config.stack.backend = spatch'[1].backend]_vars

\* the second call of ensureInitialized found no parsable state file and
\* persisted and returned the default state of a django project
C19_Witness ==
  /\ invocations = 2
  /\ spc[1] = "done"
  /\ scur[1] = NoDoc
  /\ Readable(file)
  /\ file.doc = snext[1]
  /\ file.doc.run_id = 2
  /\ file.doc.config.stack.backend = "django"

\* C20: when resetState has completed, the state document is absent and the
\* five secret slots are empty; the ensureInitialized that comes next persists
\* and returns a default state with no resource, credential, phase or
\* rollback entry of the run before.
C20_ResetLeavesNothingBehind ==
  /\ [](outcome = "reset" => (file = Absent /\ secrets \cap SecretKeys = {}))
  /\ [][(outcome = "reset" /\ invocations' = invocations + 1) =>
          /\ file' = Full(snext'[1])
          /\ BlankState(snext'[1])]_vars

\* after a first call and a reset that emptied the secret slots, the next
\* ensureInitialized found no document and created a fresh default one
C20_Witness ==
  /\ invocations = 2
  /\ secrets = {}
  /\ outcome = "returned"
  /\ spc[1] = "done"
  /\ scur[1] = NoDoc
  /\ Readable(file)
  /\ file.doc.run_id = 2
  /\ BlankState(file.doc)

(* ----------------- specifications of the pure functions -------------- *)
(* Each function is applied once to an input drawn from a bounded set;     *)
(* the store and the orchestrator stay idle.                               *)

\* before the call: any of the given inputs, no result yet
PureInit(inputs) ==
  /\ file = Absent
  /\ tmp = Absent
  /\ OrchestratorIdle
  /\ repos = {}
  /\ projects = {}
  /\ secrets = SecretKeys
  /\ StoreIdle
  /\ input \in inputs
  /\ output = NotCalled

\* the call returns value
PureReturn(value) ==
  /\ ~output.done
  /\ output' = Returned(value)
  /\ UNCHANGED <<file, tmp, input>>
  /\ UNCHANGED <<ovars, svars>>

(* ---- verifySupabaseProjectApi (auth.ts) ---- *)

\* statusCode of a response; 0 stands for a response without a status code
Statuses == {0, 200, 204, 299, 300, 401, 403, 404, 500}

\* what requestOnce resolves with: a network error, or the status of the response
ProbeResults ==
  {[error |-> TRUE, status |-> 0]} \cup {[error |-> FALSE, status |-> st] : st \in Statuses}

Is2xx(status) == status >= 200 /\ status < 300
IsDenied(status) == status = 401 \/ status = 403

\* a request that carries the Authorization header on every probe
requestOnce_authorized(path, withAuthorization) ==
  [ path |-> path, headers |-> {"apikey", "Accept", "Authorization"} ]

\* requestOnce, lines 115-133: the request a probe sends
requestOnce(path, withAuthorization) ==
  [ path |-> path,
    headers |-> IF withAuthorization THEN {"apikey", "Accept", "Authorization"}
                ELSE {"apikey", "Accept"} ]

\* the requests of a call that issued n probes (lines 160 and 176)
Requests(n) ==
  SubSeq(<<requestOnce("/auth/v1/settings", FALSE), requestOnce("/rest/v1/", TRUE)>>,
         1, n)

\* a verification that accepts only a 2xx answer
verifySupabaseProjectApi_strict(urlParses, primary, fallback) ==
  IF ~urlParses THEN [ok |-> FALSE, probes |-> 0, requests |-> Requests(0)]
  ELSE IF primary.error THEN [ok |-> FALSE, probes |-> 1, requests |-> Requests(1)]
  ELSE IF Is2xx(primary.status) THEN [ok |-> TRUE, probes |-> 1, requests |-> Requests(1)]
  ELSE IF ~IsDenied(primary.status) THEN [ok |-> FALSE, probes |-> 1, requests |-> Requests(1)]
  ELSE IF fallback.error THEN [ok |-> FALSE, probes |-> 2, requests |-> Requests(2)]
  ELSE IF Is2xx(fallback.status) THEN [ok |-> TRUE, probes |-> 2, requests |-> Requests(2)]
  ELSE [ok |-> FALSE, probes |-> 2, requests |-> Requests(2)]

\* verifySupabaseProjectApi: urlParses = new URL(projectUrl) did not throw;
\* primary and fallback are what the two probes would answer; the result says
\* how many probes were issued
verifySupabaseProjectApi(urlParses, primary, fallback) ==
  IF ~urlParses THEN [ok |-> FALSE, probes |-> 0, requests |-> Requests(0)]
  ELSE IF primary.error THEN [ok |-> FALSE, probes |-> 1, requests |-> Requests(1)]
  ELSE IF Is2xx(primary.status) THEN [ok |-> TRUE, probes |-> 1, requests |-> Requests(1)]
  ELSE IF ~IsDenied(primary.status) THEN [ok |-> TRUE, probes |-> 1, requests |-> Requests(1)]
  ELSE IF fallback.error THEN [ok |-> FALSE, probes |-> 2, requests |-> Requests(2)]
  ELSE IF Is2xx(fallback.status) THEN [ok |-> TRUE, probes |-> 2, requests |-> Requests(2)]
  ELSE IF ~IsDenied(fallback.status) THEN [ok |-> TRUE, probes |-> 2, requests |-> Requests(2)]
  ELSE [ok |-> FALSE, probes |-> 2, requests |-> Requests(2)]

VerifyInputs ==
  [urlParses : BOOLEAN, primary : ProbeResults, fallback : ProbeResults]

InitVerify == PureInit(VerifyInputs)

ApplyVerify ==
  PureReturn(verifySupabaseProjectApi(input.urlParses, input.primary, input.fallback))

SpecVerify == InitVerify /\ [][ApplyVerify]_vars

RECURSIVE CharsFrom(_, _)
CharsFrom(str, i) ==
  IF i > Len(str) THEN <<>> ELSE <<SubSeq(str, i, i)>> \o CharsFrom(str, i + 1)

\* the characters of a string literal
Chars(str) == CharsFrom(str, 1)

UpperCase == Chars("ABCDEFGHIJKLMNOPQRSTUVWXYZ")
LowerCase == Chars("abcdefghijklmnopqrstuvwxyz")
Digits == Chars("0123456789")

ToLowerChar(c) ==
  IF \E i \in DOMAIN UpperCase : UpperCase[i] = c
    THEN LowerCase[CHOOSE i \in DOMAIN UpperCase : UpperCase[i] = c]
    ELSE c

\* String.prototype.toLowerCase
RECURSIVE ToLowerCase(_)
ToLowerCase(text) ==
  IF text = <<>> THEN <<>>
  ELSE <<ToLowerChar(Head(text))>> \o ToLowerCase(Tail(text))

\* the pattern stands in the text at position p
MatchesAt(text, p, pattern) ==
  /\ p >= 1
  /\ p + Len(pattern) - 1 <= Len(text)
  /\ \A i \in 1..Len(pattern) : text[p + i - 1] = pattern[i]

\* a regular expression that is a literal tested on the text
Includes(text, pattern) ==
  \E t \in {text} : \E p \in 1..Len(t) : MatchesAt(t, p, pattern)

(* ---- quoteArg (provision.ts, auth.ts, start.ts, deploy.ts) ---- *)

\* the character class [a-zA-Z0-9._:/\\-] of the test in quoteArg
IsSafeChar(c) ==
  \/ c \in Range(LowerCase) \cup Range(UpperCase) \cup Range(Digits)
  \/ c \in {".", "_", ":", "/", "\\", "-"}

\* arg.replace(/"/g, "\\\"")
RECURSIVE EscapeQuotes(_)
EscapeQuotes(arg) ==
  IF arg = <<>> THEN <<>>
  ELSE (IF Head(arg) = "\"" THEN <<"\\", "\"">> ELSE <<Head(arg)>>)
         \o EscapeQuotes(Tail(arg))

quoteArg(arg) ==
  IF Len(arg) >= 1 /\ \A i \in DOMAIN arg : IsSafeChar(arg[i])
    THEN arg
    ELSE <<"\"">> \o EscapeQuotes(arg) \o <<"\"">>

\* one character of each kind: letters, a digit, the listed punctuation, a
\* backslash, a space, a double quote and a shell metacharacter
ArgChars == {"a", "Z", "7", ".", "_", ":", "/", "-", "\\", " ", "\"", "$"}

ArgInputs == UNION {[1..n -> ArgChars] : n \in 0..MaxArgLen}

InitQuote == PureInit(ArgInputs)

ApplyQuote == PureReturn(quoteArg(input))

SpecQuote == InitQuote /\ [][ApplyQuote]_vars

\* the characters the specification lists as needing no quotes
ListedChar(c) ==
  \/ c \in Range(LowerCase) \cup Range(UpperCase) \cup Range(Digits)
  \/ c \in {".", "_", ":", "/", "-"}

\* quoted is arg between double quotes, each double quote of arg preceded by
\* a backslash
RECURSIVE IsEscaped(_, _)
IsEscaped(inner, arg) ==
  IF arg = <<>> THEN inner = <<>>
  ELSE IF Head(arg) = "\""
    THEN /\ Len(inner) >= 2
         /\ inner[1] = "\\" /\ inner[2] = "\""
         /\ IsEscaped(SubSeq(inner, 3, Len(inner)), Tail(arg))
    ELSE /\ Len(inner) >= 1
         /\ inner[1] = Head(arg)
         /\ IsEscaped(Tail(inner), Tail(arg))

IsDoubleQuoted(quoted, arg) ==
  /\ Len(quoted) >= 2
  /\ quoted[1] = "\"" /\ quoted[Len(quoted)] = "\""
  /\ IsEscaped(SubSeq(quoted, 2, Len(quoted) - 1), arg)

\* C27: quoteArg returns an argument as it is only if the argument is
\* non-empty and made of characters of [A-Za-z0-9._:/-] alone; every other
\* argument comes back between double quotes with each inner double quote
\* escaped by a backslash.
C27_OnlyListedCharsUnquoted ==
  output.done =>
    LET listed == Len(input) >= 1 /\ \A i \in DOMAIN input : ListedChar(input[i])
    IN  IF listed THEN output.value = input
                  ELSE IsDoubleQuoted(output.value, input)

(* ---- parseDeploymentLog (deploy.ts) ---- *)

\* Array.prototype.join("\n")
RECURSIVE Join(_)
Join(lines) ==
  IF lines = <<>> THEN <<>>
  ELSE IF Len(lines) = 1 THEN lines[1]
  ELSE lines[1] \o <<"\n">> \o Join(Tail(lines))

\* a regular expression that is an alternation of literals, tested on the text
TestAny(text, literals) ==
  \E t \in {text} : \E literal \in literals : Includes(t, literal)

GateKeywords ==
  {Chars("error"), Chars("failed"), Chars("cannot find"), Chars("not found"),
   Chars("enoent")}

LineKeywords ==
  GateKeywords \cup {Chars("missing"), Chars("undefined"), Chars("null")}

EnvWords ==
  {Chars("env"), Chars("environment"), Chars("secret"), Chars("api_key"),
   Chars("api-key")}
BuildWords ==
  {Chars("build"), Chars("compile"), Chars("syntax"), Chars("npm"),
   Chars("python"), Chars("module"), Chars("package")}
ConfigWords == {Chars("config"), Chars("vercel.json"), Chars("next.config")}
NetworkWords ==
  {Chars("timeout"), Chars("econnrefused"), Chars("network"), Chars("dns"),
   Chars("connection")}

\* slice(0, 5)
MaxErrors == 5

Min(a, b) == IF a <= b THEN a ELSE b

\* a classification that looks for build words before environment words
Classify_buildFirst(line) ==
  LET lower == ToLowerCase(line)
  IN  IF TestAny(lower, BuildWords)
        THEN [ line |-> line, type |-> "build",
               suggestion |-> "Run npm run build or pip install locally to debug build issues." ]
      ELSE IF TestAny(lower, EnvWords)
        THEN [ line |-> line, type |-> "env",
               suggestion |-> "Check that all required environment variables are set in Vercel project settings." ]
      ELSE IF TestAny(lower, ConfigWords)
        THEN [ line |-> line, type |-> "config",
               suggestion |-> "Check your project configuration files (vercel.json, package.json, etc.)." ]
      ELSE IF TestAny(lower, NetworkWords)
        THEN [ line |-> line, type |-> "network",
               suggestion |-> "Check network connectivity and firewall rules for external API calls." ]
      ELSE [ line |-> line, type |-> "unknown",
             suggestion |-> "Review the logs above and fix the issue, then redeploy." ]

\* parseDeploymentLog, lines 43-63: the entry built for one selected line
\* (the hints are the ones of the code, without their backquotes)
Classify(line) ==
  LET lower == ToLowerCase(line)
  IN  IF TestAny(lower, EnvWords)
        THEN [ line |-> line, type |-> "env",
               suggestion |-> "Check that all required environment variables are set in Vercel project settings." ]
      ELSE IF TestAny(lower, BuildWords)
        THEN [ line |-> line, type |-> "build",
               suggestion |-> "Run npm run build or pip install locally to debug build issues." ]
      ELSE IF TestAny(lower, ConfigWords)
        THEN [ line |-> line, type |-> "config",
               suggestion |-> "Check your project configuration files (vercel.json, package.json, etc.)." ]
      ELSE IF TestAny(lower, NetworkWords)
        THEN [ line |-> line, type |-> "network",
               suggestion |-> "Check network connectivity and firewall rules for external API calls." ]
      ELSE [ line |-> line, type |-> "unknown",
             suggestion |-> "Review the logs above and fix the issue, then redeploy." ]

\* an extraction that reports every matching line
parseDeploymentLog_uncapped(logs) ==
  IF TestAny(ToLowerCase(Join(logs)), GateKeywords)
    THEN LET IsErrorLine(line) == TestAny(ToLowerCase(line), LineKeywords)
             lines == SelectSeq(logs, IsErrorLine)
         IN  [i \in 1..Len(lines) |-> Classify(lines[i])]
    ELSE <<>>

parseDeploymentLog(logs) ==
  IF TestAny(ToLowerCase(Join(logs)), GateKeywords)
    THEN LET IsErrorLine(line) == TestAny(ToLowerCase(line), LineKeywords)
             lines == SelectSeq(logs, IsErrorLine)
             first == SubSeq(lines, 1, Min(MaxErrors, Len(lines)))
         IN  [i \in 1..Len(first) |-> Classify(first[i])]
    ELSE <<>>

\* lines of a deployment output: with a gate keyword, with a keyword of the
\* longer list only, and with none
OutputLines ==
  {Chars("Error: build failed"), Chars("missing module"), Chars("Deploying...")}

\* lines that hold words of zero, one or several of the classification groups
ClassLines ==
  {Chars("Error: ENOENT: missing module 'foo'"),
   Chars("error: missing API_KEY in build"),
   Chars("error: secret not set in vercel.json"),
   Chars("failed: npm timeout"),
   Chars("error in next.config"),
   Chars("error: config DNS"),
   Chars("Error: ECONNREFUSED"),
   Chars("failed"),
   Chars("NOT FOUND: vercel.json"),
   Chars("Error: venv connection")}

LogInputs ==
  UNION {[1..n -> OutputLines] : n \in 0..MaxLogLen} \cup {<<line>> : line \in ClassLines}

InitParseLog == PureInit(LogInputs)

ApplyParseLog == PureReturn(parseDeploymentLog(input))

SpecParseLog == InitParseLog /\ [][ApplyParseLog]_vars

\* the positions of the input lines that hold a keyword of the longer list
KeywordLines ==
  {i \in DOMAIN input : TestAny(ToLowerCase(input[i]), LineKeywords)}

\* the position of the j-th such line
NthKeywordLine(j) ==
  CHOOSE i \in KeywordLines : Cardinality({h \in KeywordLines : h <= i}) = j

\* C23: error extraction returns the empty list unless the joined, lowercased
\* output holds error, failed, cannot find, not found or enoent; otherwise it
\* returns one entry per line, in the original order, for exactly the first
\* five (or all, if fewer) lines that hold a keyword of the longer list.
C23_FirstFiveKeywordLines ==
  output.done =>
    LET errors == output.value
        gate == TestAny(ToLowerCase(Join(input)), GateKeywords)
    IN  IF ~gate THEN errors = <<>>
        ELSE /\ Len(errors) = Min(5, Cardinality(KeywordLines))
             /\ \A j \in DOMAIN errors : errors[j].line = input[NthKeywordLine(j)]

\* more than five lines hold a keyword and five entries came back
C23_Witness ==
  /\ output.done
  /\ Cardinality(KeywordLines) > 5
  /\ Len(output.value) = 5

GroupOrder == <<"env", "build", "config", "network">>

GroupWords(group) ==
  CASE group = "env" -> EnvWords
    [] group = "build" -> BuildWords
    [] group = "config" -> ConfigWords
    [] group = "network" -> NetworkWords

Hint(type) ==
  CASE type = "env" -> "Check that all required environment variables are set in Vercel project settings."
    [] type = "build" -> "Run npm run build or pip install locally to debug build issues."
    [] type = "config" -> "Check your project configuration files (vercel.json, package.json, etc.)."
    [] type = "network" -> "Check network connectivity and firewall rules for external API calls."
    [] type = "unknown" -> "Review the logs above and fix the issue, then redeploy."

\* the groups of which the line holds a word, as positions in GroupOrder
GroupsOf(line) ==
  {g \in DOMAIN GroupOrder : TestAny(ToLowerCase(line), GroupWords(GroupOrder[g]))}

\* C24: every selected line is classified by the first keyword group it
\* matches in the order env, build, config, network, or unknown when it
\* matches none, and carries the hint of that category; the line
\* "Error: ENOENT: missing module 'foo'" is classified build.
C24_FirstMatchingGroupWins ==
  output.done =>
    /\ \A j \in DOMAIN output.value :
         LET e == output.value[j]
             groups == GroupsOf(e.line)
         IN  /\ e.type = IF groups = {} THEN "unknown"
                         ELSE GroupOrder[CHOOSE g \in groups : \A h \in groups : g <= h]
             /\ e.suggestion = Hint(e.type)
    /\ input = <<Chars("Error: ENOENT: missing module 'foo'")>> =>
         /\ Len(output.value) = 1
         /\ output.value[1].type = "build"

\* a line that holds words of the env and of the build group came back as env
C24_Witness ==
  /\ output.done
  /\ Len(output.value) = 1
  /\ GroupsOf(output.value[1].line) = {1, 2}
  /\ output.value[1].type = "env"

(* ------------------- claims on the phase gates ----------------------- *)

\* the three results phase 1 decides on (manifold.ts line 313)
AllChecksOk == local.ghOk /\ local.vercelOk /\ local.supabaseOk

\* C28: phase 1 advances current_phase to 2_scaffold only if the GitHub
\* check, the hosting check and the backend verification all returned ok;
\* otherwise it persists paused_at_auth at 1_auth and returns, so that no
\* scaffolding, provisioning, wiring or deployment step follows phase 1.
C28_PhaseOneGate ==
  /\ pc \in {"auth_advance", "scaffold"} => AllChecksOk
  /\ pc = "scaffold" =>
       /\ file.doc.current_phase = "2_scaffold"
       /\ file.doc.status = "in_progress"
  /\ ( /\ "1_auth" \in Range(stream)
       /\ pc \notin {"auth", "auth_collect", "auth_decide"}
       /\ ~AllChecksOk ) =>
       /\ pc = "idle"
       /\ stream[Len(stream)] = "1_auth"
       /\ outcome = "returned" =>
            /\ Readable(file)
            /\ file.doc.current_phase = "1_auth"
            /\ file.doc.status = "paused_at_auth"

\* both CLI checks passed, the backend verification did not, and the
\* invocation has returned with the pause persisted
C28_Witness ==
  /\ pc = "idle"
  /\ outcome = "returned"
  /\ local.ghOk /\ local.vercelOk /\ ~local.supabaseOk
  /\ stream # <<>>
  /\ stream[Len(stream)] = "1_auth"
  /\ file.doc.status = "paused_at_auth"

\* the three backend credential fields of a document
BackendCredentials(doc) ==
  { doc.credentials.supabase_access_token,
    doc.credentials.supabase_url,
    doc.credentials.supabase_publishable_key }

\* the test of manifold.ts line 184 on a document
HasBackendCredentials(doc) == \A v \in BackendCredentials(doc) : Truthy(v)

\* C29: the three backend credential fields are written as a group: in every
\* persisted state they are all null or all non-null, and a silent
\* re-verification that fails nulls all three in one write, before the
\* interactive collection starts.
C29_BackendCredentialsMoveTogether ==
  /\ [](Readable(file) =>
          \/ BackendCredentials(file.doc) = {Null}
          \/ Null \notin BackendCredentials(file.doc))
  /\ [][ ( /\ pc = "auth"
           /\ HasBackendCredentials(file.doc)
           /\ pc' = "auth_collect" ) =>
         /\ Readable(file')
         /\ BackendCredentials(file'.doc) = {Null} ]_vars

\* the interactive collection is about to start after stored credentials
\* failed their re-verification: the reference they left is still there
C29_Witness ==
  /\ pc = "auth_collect"
  /\ Readable(file)
  /\ BackendCredentials(file.doc) = {Null}
  /\ file.doc.resources.supabase_ref # Null

\* C30: if a dependency install reported by scaffolding failed, phase 2
\* persists paused_at_auth at 2_scaffold and returns without invoking the
\* provisioner; in a run that started without a state file the persisted
\* rollback_stack is still empty at that point.
C30_InstallFailurePausesPhaseTwo ==
  local.installFailed =>
    /\ pc = "idle"
    /\ "3_provision" \notin Range(stream)
    /\ executed = <<>>
    /\ outcome = "returned" =>
         /\ Readable(file)
         /\ file.doc.current_phase = "2_scaffold"
         /\ file.doc.status = "paused_at_auth"
         /\ entryPhase = "none" => file.doc.rollback_stack = <<>>

\* a run that started without a state file has returned from phase 2 after
\* a failed install
C30_Witness ==
  /\ local.installFailed
  /\ outcome = "returned"
  /\ entryPhase = "none"
  /\ local.ghOk /\ local.vercelOk /\ local.supabaseOk
  /\ file.doc.status = "paused_at_auth"
  /\ file.doc.rollback_stack = <<>>

(* ------------- StateManager.patch on split and joined patches -------- *)

\* the nested sections StateManager.patch merges key by key
Sections == {"credentials", "resources", "config"}

\* the keys of a section
SectionKeys(section) ==
  CASE section = "credentials" ->
         {"vercel_token", "supabase_access_token", "supabase_url",
          "supabase_publishable_key"}
    [] section = "resources" ->
         {"github_repo", "vercel_project_id", "supabase_ref"}
    [] section = "config" -> {"project_name", "stack"}

\* values a patch can supply for a key
KeyValues(section, key) ==
  CASE section = "config" /\ key = "project_name" -> {"app", "other"}
    [] section = "config" /\ key = "stack" ->
         {[frontend |-> "react-vite"], [backend |-> "django"],
          [frontend |-> "react-vite", backend |-> "fastapi"]}
    [] OTHER -> {Null, "new"}

\* documents a patch can start from: the default one and one with every
\* nullable field filled
StartDocs ==
  { createDefaultState("app", "flask", 1),
    MergeDoc(createDefaultState("my-app", "flask", 2),
             [ current_phase |-> "4_env_wiring",
               resources |-> [ github_repo |-> FullRepo("my-app"),
                               vercel_project_id |-> "my-app",
                               supabase_ref |-> "ref1" ],
               credentials |-> [ vercel_token |-> "vercel_tok",
                                 supabase_access_token |-> "sbp_tok",
                                 supabase_url |-> "https://ref1",
                                 supabase_publishable_key |-> "sb_key" ],
               rollback_stack |-> <<CmdRepoDelete("my-app")>> ]) }

\* a start document, a section, and a value for each of two keys of it
SplitPatchInputs ==
  UNION { UNION { { [ start |-> start, section |-> section,
                      a |-> a, va |-> va, b |-> b, vb |-> vb ] :
                    start \in StartDocs,
                    va \in KeyValues(section, a), vb \in KeyValues(section, b) } :
                  a \in SectionKeys(section), b \in SectionKeys(section) } :
          section \in Sections }

\* the patch object {section: {key: value}}
OneKeyPatch(section, key, value) ==
  [s \in {section} |-> [k \in {key} |-> value]]

\* the patch object {section: {a: va, b: vb}}
TwoKeyPatch(section, a, va, b, vb) ==
  [s \in {section} |-> [k \in {a, b} |-> IF k = a THEN va ELSE vb]]

InitPatches == PureInit(SplitPatchInputs)

\* the state file after the two patches in turn, and after the joined patch
ApplyPatches ==
  LET fs == [file |-> Full(input.start), tmp |-> Absent]
      first == patch(fs, OneKeyPatch(input.section, input.a, input.va))
      second == patch(first, OneKeyPatch(input.section, input.b, input.vb))
      once == patch(fs, TwoKeyPatch(input.section, input.a, input.va,
                                    input.b, input.vb))
  IN  PureReturn([split |-> second, joined |-> once])

SpecPatches == InitPatches /\ [][ApplyPatches]_vars

\* C25: for two different keys a and b of credentials, of resources or of
\* config, patching {section: {a}} and then {section: {b}} leaves the same
\* persisted state as patching {section: {a, b}} once, from any start state.
C25_SplitPatchEqualsJoinedPatch ==
  (output.done /\ input.a # input.b) => output.value.split = output.value.joined

\* two credential keys were patched on a document that held all credentials,
\* and the split patches changed the document
C25_Witness ==
  /\ output.done
  /\ input.section = "credentials"
  /\ input.a # input.b
  /\ input.start.credentials.vercel_token # Null
  /\ output.value.split.file.doc # input.start
  /\ output.value.split.file.doc.credentials[input.a] = input.va
  /\ output.value.split.file.doc.credentials[input.b] = input.vb

(* --------------- parseSupabaseProjectRef (part_000) ------------------ *)

\* the first and the last position of the text that holds one of the
\* characters, 0 when there is none
FirstIndex(text, chars) ==
  LET hits == {i \in DOMAIN text : text[i] \in chars}
  IN  IF hits = {} THEN 0 ELSE CHOOSE i \in hits : \A j \in hits : i <= j

LastIndex(text, chars) ==
  LET hits == {i \in DOMAIN text : text[i] \in chars}
  IN  IF hits = {} THEN 0 ELSE CHOOSE i \in hits : \A j \in hits : i >= j

\* text.slice(i - 1)
From(text, i) == SubSeq(text, i, Len(text))

\* String.prototype.endsWith
EndsWith(text, suffix) ==
  /\ Len(text) >= Len(suffix)
  /\ From(text, Len(text) - Len(suffix) + 1) = suffix

\* the characters \\s matches, of those the inputs hold
WhiteSpace == {" ", "\t", "\n", "\r"}

\* String.prototype.trim
RECURSIVE Trim(_)
Trim(text) ==
  IF text = <<>> THEN <<>>
  ELSE IF Head(text) \in WhiteSpace THEN Trim(Tail(text))
  ELSE IF text[Len(text)] \in WhiteSpace THEN Trim(SubSeq(text, 1, Len(text) - 1))
  ELSE text

IsAlpha(c) == c \in Range(LowerCase) \cup Range(UpperCase)

\* the characters of a URL scheme after its first letter
IsSchemeChar(c) == IsAlpha(c) \/ c \in Range(Digits) \/ c \in {"+", "-", "."}

\* characters a host of an https URL cannot hold
ForbiddenHostChars == {" ", "#", "/", ":", "<", ">", "?", "@", "[", "\\", "]", "^", "|", "%"}

\* the slashes an https URL has after its scheme
RECURSIVE SkipSlashes(_)
SkipSlashes(text) ==
  IF text # <<>> /\ Head(text) \in {"/", "\\"} THEN SkipSlashes(Tail(text)) ELSE text

\* new URL(...) threw
InvalidUrl == [ok |-> FALSE, protocol |-> <<>>, hostname |-> <<>>]

\* new URL(text) without a base, as far as protocol and hostname go: the
\* scheme up to the first colon, then the authority up to the path, query
\* or fragment, without the user information and the port; scheme and host
\* come back in lower case. The authority is read the way an https URL has
\* it read; of a URL of another scheme the function reads the protocol only.
ParseUrl(text) ==
  LET colon == FirstIndex(text, {":"})
      schemeOk == /\ colon > 1
                  /\ IsAlpha(text[1])
                  /\ \A i \in 1..(colon - 1) : IsSchemeChar(text[i])
  IN  IF ~schemeOk THEN InvalidUrl
      ELSE LET rest == SkipSlashes(From(text, colon + 1))
               stop == FirstIndex(rest, {"/", "\\", "?", "#"})
               authority == IF stop = 0 THEN rest ELSE SubSeq(rest, 1, stop - 1)
               hostport == From(authority, LastIndex(authority, {"@"}) + 1)
               portColon == LastIndex(hostport, {":"})
               host == IF portColon = 0 THEN hostport
                       ELSE SubSeq(hostport, 1, portColon - 1)
               port == IF portColon = 0 THEN <<>> ELSE From(hostport, portColon + 1)
           IN  IF \/ host = <<>>
                  \/ \E i \in DOMAIN host : host[i] \in ForbiddenHostChars
                  \/ \E i \in DOMAIN port : port[i] \notin Range(Digits)
                 THEN InvalidUrl
                 ELSE [ ok |-> TRUE,
                        protocol |-> ToLowerCase(SubSeq(text, 1, colon)),
                        hostname |-> ToLowerCase(host) ]

\* the {20,} of the reference pattern
MinRefLength == 20

\* what parseSupabaseProjectRef returns: null, or a reference
NullRef == [isNull |-> TRUE, ref |-> <<>>]
Ref(ref) == [isNull |-> FALSE, ref |-> ref]

\* /^[a-z0-9]{20,}$/.test(ref)
IsRef(ref) ==
  /\ Len(ref) >= MinRefLength
  /\ \A i \in DOMAIN ref : ref[i] \in Range(LowerCase) \cup Range(Digits)

\* a parser that takes the reference of a URL of any scheme
parseSupabaseProjectRef_anyScheme(projectUrl) ==
  LET parsed == ParseUrl(projectUrl)
      host == ToLowerCase(parsed.hostname)
      suffix == Chars(".supabase.co")
      ref == Trim(SubSeq(host, 1, Len(host) - Len(suffix)))
  IN  IF ~parsed.ok THEN NullRef
      ELSE IF ~EndsWith(host, suffix) THEN NullRef
      ELSE IF ~IsRef(ref) THEN NullRef
      ELSE Ref(ref)

parseSupabaseProjectRef(projectUrl) ==
  LET parsed == ParseUrl(projectUrl)
      host == ToLowerCase(parsed.hostname)
      suffix == Chars(".supabase.co")
      ref == Trim(SubSeq(host, 1, Len(host) - Len(suffix)))
  IN  IF ~parsed.ok THEN NullRef
      ELSE IF parsed.protocol # Chars("https:") THEN NullRef
      ELSE IF ~EndsWith(host, suffix) THEN NullRef
      ELSE IF ~IsRef(ref) THEN NullRef
      ELSE Ref(ref)

\* the parts a project URL is put together from
UrlSchemes == {Chars("https://"), Chars("HTTPS://"), Chars("http://"), <<>>}
UrlUsers == {<<>>, Chars("user@")}
UrlLabels ==
  { Chars("abcdefghij0123456789"),    \* twenty characters
    Chars("abcdefghij012345678"),     \* nineteen
    Chars("abcdefghij0123456789z"),   \* twenty-one
    Chars("ABCDEFGHIJ0123456789"),    \* capitals, which a host name folds
    Chars("abcdefghij-123456789"),    \* a character outside the pattern
    Chars("evil.abcdefghij0123456789"),
    <<>> }
UrlSuffixes ==
  { Chars(".supabase.co"), Chars(".supabase.com"), Chars(".supabase.co.evil.io"),
    Chars(".supabase.co@evil.io"), Chars(".supabase.co."), <<>> }
UrlTails == {<<>>, Chars("/"), Chars(":8443"), Chars("/rest/v1?x=1"), Chars("#frag")}

UrlInputs ==
  [ scheme : UrlSchemes, user : UrlUsers, label : UrlLabels,
    suffix : UrlSuffixes, tail : UrlTails ]

\* the text of the URL
UrlText(parts) ==
  parts.scheme \o parts.user \o parts.label \o parts.suffix \o parts.tail

InitParseRef == PureInit(UrlInputs)

ApplyParseRef == PureReturn(parseSupabaseProjectRef(UrlText(input)))

SpecParseRef == InitParseRef /\ [][ApplyParseRef]_vars

\* C26: reference parsing returns exactly the subdomain label for every
\* https URL whose host ends with .supabase.co and whose remaining label is
\* twenty or more characters of a-z and 0-9 (scheme and host of a URL are
\* read in lower case); for every other text, a URL or not, it returns null.
C26_ReferenceOnlyFromPlatformUrl ==
  output.done =>
    LET label == ToLowerCase(input.label)
        accepted == /\ ToLowerCase(input.scheme) = Chars("https://")
                    /\ input.suffix = Chars(".supabase.co")
                    /\ Len(label) >= 20
                    /\ \A i \in DOMAIN label :
                         label[i] \in Range(LowerCase) \cup Range(Digits)
    IN  output.value = IF accepted THEN Ref(label) ELSE NullRef

\* a URL with user information and a port gave its twenty-character label
C26_Witness ==
  /\ output.done
  /\ input.user # <<>>
  /\ input.tail = Chars(":8443")
  /\ input.label = Chars("abcdefghij0123456789")
  /\ output.value = Ref(input.label)

(* ------------- the URLs of a deployment output (deploy.ts) ----------- *)

MaxOutputLen == 2

\* a URL or null
NullUrl == [isNull |-> TRUE, text |-> <<>>]
Url(text) == [isNull |-> FALSE, text |-> text]

Least(set) == CHOOSE p \in set : \A q \in set : p <= q

\* the length of the https?:\/\/ that stands at position p of the lowercased
\* text, 0 when none does
SchemeLenAt(lower, p) ==
  IF MatchesAt(lower, p, Chars("https://")) THEN 8
  ELSE IF MatchesAt(lower, p, Chars("http://")) THEN 7
  ELSE 0

\* the position after the \\s* that starts at p
RECURSIVE SkipSpaces(_, _)
SkipSpaces(text, p) ==
  IF p <= Len(text) /\ text[p] \in WhiteSpace THEN SkipSpaces(text, p + 1) ELSE p

\* the last position of the [^\\s]* that starts at p (p - 1 when it is empty)
RECURSIVE TokenEnd(_, _)
TokenEnd(text, p) ==
  IF p <= Len(text) /\ text[p] \notin WhiteSpace THEN TokenEnd(text, p + 1) ELSE p - 1

\* https?:\/\/[^\\s]+ stands at position q
UrlAt(text, lower, q) ==
  /\ SchemeLenAt(lower, q) > 0
  /\ TokenEnd(text, q) >= q + SchemeLenAt(lower, q)

\* text.match(/Aliased:\\s*(https?:\/\/[^\\s]+)/i), group 1
AliasedUrl(text) ==
  LET lower == ToLowerCase(text)
      word == Chars("aliased:")
      hits == {p \in DOMAIN text :
                 /\ MatchesAt(lower, p, word)
                 /\ UrlAt(text, lower, SkipSpaces(text, p + Len(word)))}
  IN  IF hits = {} THEN NullUrl
      ELSE LET q == SkipSpaces(text, Least(hits) + Len(word))
           IN  Url(SubSeq(text, q, TokenEnd(text, q)))

\* the line is, between white space, one https?:\/\/[^\\s]*\\.vercel\\.app
IsReadyLine(line) ==
  LET token == Trim(line)
      lower == ToLowerCase(token)
      domain == Chars(".vercel.app")
  IN  /\ SchemeLenAt(lower, 1) > 0
      /\ \A i \in DOMAIN token : token[i] \notin WhiteSpace
      /\ Len(token) >= SchemeLenAt(lower, 1) + Len(domain)
      /\ EndsWith(lower, domain)

\* text.match(/(?:^|\\n)\\s*https?:\/\/[^\\s]*\\.vercel\\.app\\s*$/im), trimmed: the
\* first line of the output that is such a URL and nothing else
ReadyUrl(logs) ==
  LET hits == {i \in DOMAIN logs : IsReadyLine(logs[i])}
  IN  IF hits = {} THEN NullUrl ELSE Url(Trim(logs[Least(hits)]))

extractVercelPublicUrl(logs) ==
  LET aliased == AliasedUrl(Join(logs))
  IN  IF ~aliased.isNull THEN aliased ELSE ReadyUrl(logs)

\* [a-z0-9-] under the i flag, on the lowercased text
IsHostChar(c) == c \in Range(LowerCase) \cup Range(Digits) \cup {"-"}

\* the last position of the [a-z0-9-]* that starts at q
RECURSIVE HostRunEnd(_, _)
HostRunEnd(lower, q) ==
  IF q <= Len(lower) /\ IsHostChar(lower[q]) THEN HostRunEnd(lower, q + 1) ELSE q - 1

\* ([a-z0-9-]+ domain) stands at position q
HostAt(lower, q, domain) ==
  /\ HostRunEnd(lower, q) >= q
  /\ MatchesAt(lower, HostRunEnd(lower, q) + 1, domain)

\* text.match(/(?:https?:\/\/)?([a-z0-9-]+ domain)/i), group 1
HostMatch(text, domain) ==
  LET lower == ToLowerCase(text)
      GroupStart(p) == IF /\ SchemeLenAt(lower, p) > 0
                          /\ HostAt(lower, p + SchemeLenAt(lower, p), domain)
                         THEN p + SchemeLenAt(lower, p) ELSE p
      hits == {p \in DOMAIN text : HostAt(lower, GroupStart(p), domain)}
  IN  IF hits = {} THEN NullUrl
      ELSE LET q == GroupStart(Least(hits))
           IN  Url(SubSeq(text, q, HostRunEnd(lower, q) + Len(domain)))

\* text.match(/(?:production\\s+)?url:?\\s+(https?:\/\/[^\\s]+)/i), group 1; the
\* optional first word moves the start of the match, not the group
LabelledUrl(text) ==
  LET lower == ToLowerCase(text)
      AfterWord(p) == IF p + 3 <= Len(text) /\ text[p + 3] = ":" THEN p + 4 ELSE p + 3
      hits == {p \in DOMAIN text :
                 /\ MatchesAt(lower, p, Chars("url"))
                 /\ SkipSpaces(text, AfterWord(p)) > AfterWord(p)
                 /\ UrlAt(text, lower, SkipSpaces(text, AfterWord(p)))}
  IN  IF hits = {} THEN NullUrl
      ELSE LET q == SkipSpaces(text, AfterWord(Least(hits)))
           IN  Url(SubSeq(text, q, TokenEnd(text, q)))

\* lines 77-81: the candidate of a match, when it passes the test
Candidate(match) ==
  IF match.isNull THEN NullUrl
  ELSE LET candidate == IF MatchesAt(match.text, 1, Chars("http"))
                          THEN match.text ELSE Chars("https://") \o match.text
       IN  IF TestAny(candidate, {Chars("vercel.app"), Chars("web.app")})
             THEN Url(candidate) ELSE NullUrl

extractDeploymentUrl(logs) ==
  LET text == Join(logs)
      first == Candidate(HostMatch(text, Chars(".vercel.app")))
      second == Candidate(HostMatch(text, Chars(".web.app")))
      third == Candidate(LabelledUrl(text))
  IN  IF ~first.isNull THEN first
      ELSE IF ~second.isNull THEN second
      ELSE third

\* runDeployment, lines 238-251: what the frontend deployment resolves to;
\* error = the command failed, lines = its output
frontendResult(error, lines) ==
  IF error
    THEN [ ok |-> FALSE, url |-> extractDeploymentUrl(lines),
           publicUrl |-> extractVercelPublicUrl(lines) ]
    ELSE LET url == extractDeploymentUrl(lines)
             found == extractVercelPublicUrl(lines)
         IN  [ ok |-> ~url.isNull, url |-> url,
               publicUrl |-> IF found.isNull THEN url ELSE found ]

\* lines of the output of a deployment command
DeployLines ==
  { Chars("Aliased: https://app-demo.example-host.app"),
    Chars("https://my-app-abc.vercel.app"),
    Chars("Production: https://my-app-abc.vercel.app [2s]"),
    Chars("http://a.b.vercel.app"),
    Chars("Hosting URL: https://demo.web.app"),
    Chars("url: https://vercel.app/demo"),
    Chars("Error: build failed") }

DeployInputs ==
  [ error : BOOLEAN,
    lines : UNION {[1..n -> DeployLines] : n \in 0..MaxOutputLen} ]

InitPublicUrl == PureInit(DeployInputs)

ApplyPublicUrl == PureReturn(frontendResult(input.error, input.lines))

SpecPublicUrl == InitPublicUrl /\ [][ApplyPublicUrl]_vars

\* C22: for any deployment command output, the public URL of the result is
\* the URL of the Aliased: line when the output holds one, otherwise the
\* generic extracted deployment URL when there is one, and null only when
\* neither is found.
C22_PublicUrlAliasedThenGeneric ==
  output.done =>
    LET aliased == AliasedUrl(Join(input.lines))
    IN  output.value.publicUrl =
          IF ~aliased.isNull THEN aliased ELSE extractDeploymentUrl(input.lines)

(* ------------- phase 0 tool by tool (manifold.ts, bootstrap) --------- *)

\* installOrder, line 80
installOrder == <<"git", "node", "python", "gh", "vercel", "supabase">>

\* the tools runEnvironmentChecks reports on (start.ts lines 312-319)
ToolKeys == Range(installOrder)

\* lines 81-83: the missing tools sorted by their place in installOrder
missingOrder(present) ==
  LET IsMissing(tool) == tool \notin present
  IN  SelectSeq(installOrder, IsMissing)

\* handleSetup has initialised and patched the state and calls bootstrap
InitBootstrap ==
  /\ file = Full(MergeDoc(createDefaultState("app", "flask", 1),
                          [ status |-> "in_progress",
                            current_phase |-> "0_env_check" ]))
  /\ tmp = Absent
  /\ pc = "boot_check"
  /\ invocations = 1
  /\ outcome = "none"
  /\ entryPhase = "none"
  /\ stream = <<>>
  /\ local = LocalInit
  /\ created = {}
  /\ rollbackStack = <<>>
  /\ executed = <<>>
  /\ repos = {}
  /\ projects = {}
  /\ secrets = SecretKeys
  /\ StoreIdle
  /\ FunctionIdle

\* bootstrap, lines 52-73: the first check; present = the tools found
BootCheck(present) ==
  /\ pc = "boot_check"
  /\ stream' = Append(stream, "0_env_check")
  /\ local' = [local EXCEPT !.present = present, !.checks = 1,
                            !.missingOrder = missingOrder(present)]
  /\ IF present = ToolKeys
       THEN /\ Persist([current_phase |-> "1_auth", status |-> "in_progress"])
            /\ pc' = "auth"
       ELSE /\ UNCHANGED <<file, tmp>>
            /\ pc' = "boot_install"
  /\ UNCHANGED <<invocations, outcome, entryPhase, repos, projects, created,
                 rollbackStack, executed, secrets>>
  /\ UNCHANGED <<svars, fvars>>

\* bootstrap, lines 85-104: one turn of the install loop; what the attempt
\* returns changes the messages and PATH only
BootInstall ==
  /\ pc = "boot_install"
  /\ Len(local.attempts) < Len(local.missingOrder)
  /\ local' = [local EXCEPT !.attempts =
                  Append(@, local.missingOrder[Len(local.attempts) + 1])]
  /\ UNCHANGED <<file, tmp, pc, stream>>
  /\ UNCHANGED <<invocations, outcome, entryPhase, repos, projects, created,
                 rollbackStack, executed, secrets>>
  /\ UNCHANGED <<svars, fvars>>

\* a re-check that moves on to phase 1 whatever it found
BootRecheck_advances(present) ==
  /\ pc = "boot_install"
  /\ Len(local.attempts) = Len(local.missingOrder)
  /\ local' = [local EXCEPT !.present = present, !.checks = 2]
  /\ Persist([current_phase |-> "1_auth", status |-> "in_progress"])
  /\ pc' = "auth"
  /\ UNCHANGED <<stream, invocations, outcome, entryPhase, repos, projects,
                 created, rollbackStack, executed, secrets>>
  /\ UNCHANGED <<svars, fvars>>

\* bootstrap, lines 106-147: the check after the install attempts and the
\* decision
BootRecheck(present) ==
  /\ pc = "boot_install"
  /\ Len(local.attempts) = Len(local.missingOrder)
  /\ local' = [local EXCEPT !.present = present, !.checks = 2]
  /\ IF present = ToolKeys
       THEN /\ Persist([current_phase |-> "1_auth", status |-> "in_progress"])
            /\ pc' = "auth"
            /\ UNCHANGED outcome
       ELSE /\ Persist([status |-> "paused_at_auth", current_phase |-> "0_env_check"])
            /\ Return("returned")
  /\ UNCHANGED <<stream, invocations, entryPhase, repos, projects,
                 created, rollbackStack, executed, secrets>>
  /\ UNCHANGED <<svars, fvars>>

NextBootstrap ==
  \/ \E present \in SUBSET ToolKeys : BootCheck(present)
  \/ BootInstall
  \/ \E present \in SUBSET ToolKeys : BootRecheck(present)

SpecBootstrap == InitBootstrap /\ [][NextBootstrap]_vars

\* the attempts made so far follow the fixed order
InFixedOrder(attempts) ==
  \A i, j \in DOMAIN attempts :
    i < j =>
      \E a, b \in DOMAIN installOrder :
        a < b /\ installOrder[a] = attempts[i] /\ installOrder[b] = attempts[j]

\* C31: phase 0 advances current_phase to 1_auth only when the most recent
\* tool check found every tool; when tools are missing, one install is
\* attempted per missing tool in the order git, node, python, gh, vercel,
\* supabase, the checks are run once more, and if a tool is still missing
\* the state is persisted as paused_at_auth at 0_env_check and the
\* invocation returns without running a later phase.
C31_PhaseZeroGate ==
  /\ file.doc.current_phase = "1_auth" <=> pc = "auth"
  /\ pc = "auth" => local.present = ToolKeys /\ file.doc.status = "in_progress"
  /\ local.checks <= 2
  /\ InFixedOrder(local.attempts)
  /\ local.checks = 1 => Range(local.attempts) \subseteq ToolKeys \ local.present
  /\ local.checks = 2 =>
       /\ Len(local.attempts) >= 1
       /\ Len(local.attempts) = Cardinality(Range(local.attempts))
       /\ local.present # ToolKeys =>
            /\ pc = "idle"
            /\ outcome = "returned"
            /\ file.doc.status = "paused_at_auth"
            /\ file.doc.current_phase = "0_env_check"
            /\ stream = <<"0_env_check">>

\* three tools were missing, their installs were attempted, the second
\* check still missed one, and the run is paused
C31_Witness ==
  /\ local.checks = 2
  /\ local.attempts = <<"node", "gh", "supabase">>
  /\ local.present = ToolKeys \ {"gh"}
  /\ pc = "idle"
  /\ file.doc.status = "paused_at_auth"

(* ------- phase 1 prompt by prompt (manifold.ts, runAuthHandshake) ---- *)

\* showInputBox resolves to undefined when the operator dismisses it
Undefined == "undefined"

\* what the operator can answer to the three prompts
PromptAnswers(prompt) ==
  CASE prompt = "access_token" -> {Undefined, "", " ", "sbp_tok", " sbp_tok "}
    [] prompt = "project_url" ->
         {Undefined, "", " ", "https://ref1", " https://ref1/ ", "https://short"}
    [] prompt = "publishable_key" -> {Undefined, "", " ", "sb_key", " sb_key "}

\* String.prototype.trim on the answers above
TrimAnswer(answer) ==
  CASE answer = " " -> ""
    [] answer = " sbp_tok " -> "sbp_tok"
    [] answer = " https://ref1/ " -> "https://ref1/"
    [] answer = " sb_key " -> "sb_key"
    [] OTHER -> answer

\* !answer || answer.trim().length === 0
IsBlank(answer) == answer = Undefined \/ TrimAnswer(answer) = ""

\* the silent re-verification found nothing to verify, or has failed and
\* nulled the credentials, and the collection block of line 208 is entered
InitCollect ==
  /\ file \in { Full(MergeDoc(createDefaultState("app", "flask", 1),
                               [ current_phase |-> "1_auth",
                                 resources |-> [supabase_ref |-> ref] ])) :
                 ref \in {Null, "ref1"} }
  /\ tmp = Absent
  /\ pc = "collect_token"
  /\ invocations = 1
  /\ outcome = "none"
  /\ entryPhase = "none"
  /\ stream = <<"0_env_check", "1_auth">>
  /\ \E ghOk \in BOOLEAN, vercelOk \in BOOLEAN :
       local = [LocalInit EXCEPT !.ghOk = ghOk, !.vercelOk = vercelOk]
  /\ created = {}
  /\ rollbackStack = <<>>
  /\ executed = <<>>
  /\ repos = {}
  /\ projects = {}
  /\ secrets = SecretKeys
  /\ StoreIdle
  /\ FunctionIdle

\* one prompt of the collection: a blank answer ends the collection, any
\* other answer leads to the step `then`
Prompt(prompt, at, answer, then) ==
  /\ pc = at
  /\ local' = [local EXCEPT !.prompts = Append(@, prompt),
                            !.answers = Append(@, answer),
                            !.supabaseOk = FALSE]
  /\ pc' = IF IsBlank(answer) THEN "auth_decide" ELSE then
  /\ UNCHANGED <<file, tmp>>
  /\ UNCHANGED <<invocations, outcome, entryPhase, stream, repos, projects,
                 created, rollbackStack, executed, secrets>>
  /\ UNCHANGED <<svars, fvars>>

\* lines 211-229
CollectToken(answer) == Prompt("access_token", "collect_token", answer, "collect_url")

\* a URL prompt whose blank answer does not end the collection
CollectUrl_goesOn(answer) ==
  /\ pc = "collect_url"
  /\ local' = [local EXCEPT !.prompts = Append(@, "project_url"),
                            !.answers = Append(@, answer),
                            !.supabaseOk = FALSE]
  /\ pc' = "collect_key"
  /\ UNCHANGED <<file, tmp>>
  /\ UNCHANGED <<invocations, outcome, entryPhase, stream, repos, projects,
                 created, rollbackStack, executed, secrets>>
  /\ UNCHANGED <<svars, fvars>>

\* lines 231-250
CollectUrl(answer) == Prompt("project_url", "collect_url", answer, "collect_key")

\* lines 252-269
CollectKey(answer) == Prompt("publishable_key", "collect_key", answer, "collect_verify")

\* lines 270-294: the verification request and, when it passes, the patch
CollectVerify(verifyOk) ==
  /\ pc = "collect_verify"
  /\ LET accessToken == TrimAnswer(local.answers[1])
         normalizedUrl == NormalizeUrl(TrimAnswer(local.answers[2]))
         publishableKey == TrimAnswer(local.answers[3])
     IN  IF verifyOk
           THEN Persist([ resources |-> [supabase_ref |-> ParseRef(normalizedUrl)],
                          credentials |->
                            [ supabase_url |-> normalizedUrl,
                              supabase_publishable_key |-> publishableKey,
                              supabase_access_token |-> accessToken ] ])
           ELSE UNCHANGED <<file, tmp>>
  /\ local' = [local EXCEPT !.verifyRequests = @ + 1, !.supabaseOk = verifyOk]
  /\ pc' = "auth_decide"
  /\ UNCHANGED <<invocations, outcome, entryPhase, stream, repos, projects,
                 created, rollbackStack, executed, secrets>>
  /\ UNCHANGED <<svars, fvars>>

NextCollect ==
  \/ \E answer \in PromptAnswers("access_token") : CollectToken(answer)
  \/ \E answer \in PromptAnswers("project_url") : CollectUrl(answer)
  \/ \E answer \in PromptAnswers("publishable_key") : CollectKey(answer)
  \/ \E verifyOk \in BOOLEAN : CollectVerify(verifyOk)
  \/ \E vercelToken \in VercelTokenAnswers : AuthVercelToken(vercelToken)
  \/ AuthAdvance
  \/ AuthPause

SpecCollect == InitCollect /\ [][NextCollect]_vars

\* some prompt of the collection got a blank answer
CollectionCancelled == \E i \in DOMAIN local.answers : IsBlank(local.answers[i])

\* C32: an empty or whitespace-only answer to the access-token, the
\* project-URL or the publishable-key prompt cancels phase 1: no later
\* prompt is issued, no verification request is made, the collection writes
\* no credential field, and the state ends paused_at_auth at 1_auth. An empty
\* answer to the hosting-token prompt still leads to 2_scaffold.
C32_BlankAnswerCancelsPhaseOne ==
  /\ [](CollectionCancelled =>
          /\ IsBlank(local.answers[Len(local.answers)])
          /\ \A i \in 1..(Len(local.answers) - 1) : ~IsBlank(local.answers[i])
          /\ Len(local.prompts) = Len(local.answers)
          /\ local.verifyRequests = 0
          /\ BackendCredentials(file.doc) = {Null}
          /\ file.doc.credentials.vercel_token = Null
          /\ pc \in {"auth_decide", "idle"}
          /\ pc = "idle" =>
               /\ outcome = "returned"
               /\ file.doc.status = "paused_at_auth"
               /\ file.doc.current_phase = "1_auth")
  /\ [][ (pc = "auth_decide" /\ AllChecksOk /\ pc' # pc) =>
           pc' = "auth_advance" ]_vars
  /\ [][ (pc = "auth_advance" /\ pc' # pc) =>
           /\ pc' = "scaffold"
           /\ file'.doc.current_phase = "2_scaffold" ]_vars

\* a whitespace-only project URL was answered after a token, and the run
\* has returned paused
C32_Witness ==
  /\ local.answers = <<" sbp_tok ", " ">>
  /\ local.prompts = <<"access_token", "project_url">>
  /\ local.ghOk /\ local.vercelOk
  /\ pc = "idle"
  /\ file.doc.status = "paused_at_auth"

EnvChecks == <<"git", "node", "python", "gh", "vercel", "supabase">>

\* the checks phase 1 makes when backend credentials are stored
StoredCredentials(doc) ==
  /\ Truthy(doc.credentials.supabase_access_token)
  /\ Truthy(doc.credentials.supabase_url)
  /\ Truthy(doc.credentials.supabase_publishable_key)

AuthChecks(doc) ==
  {"gh_auth", "vercel_whoami"} \cup
  (IF StoredCredentials(doc) THEN {"supabase_api"} ELSE {})

\* the checks of the phase being executed
PhaseChecks ==
  IF local.checkPhase = "0_env_check" THEN Range(EnvChecks)
  ELSE AuthChecks(file.doc)

ChecksDocs ==
  { MergeDoc(createDefaultState("app", "flask", 1),
             [ status |-> "in_progress", current_phase |-> ph,
               credentials |-> cr ]) :
      ph \in {"0_env_check", "1_auth"},
      cr \in { [ supabase_access_token |-> Null, supabase_url |-> Null,
                 supabase_publishable_key |-> Null ],
               [ supabase_access_token |-> "pat1",
                 supabase_url |-> "https://ref1",
                 supabase_publishable_key |-> "key1" ] } }

\* runEnvironmentChecks or runAuthHandshake has just been called
InitChecks ==
  /\ \E doc \in ChecksDocs :
       /\ file = Full(doc)
       /\ pc = (IF doc.current_phase = "0_env_check" THEN "env_checks"
                ELSE "auth_checks")
       /\ local = [LocalInit EXCEPT !.checkPhase = doc.current_phase,
                                    !.running = TRUE]
  /\ tmp = Absent
  /\ invocations = 1
  /\ outcome = "none"
  /\ entryPhase = "none"
  /\ stream = <<>>
  /\ created = {}
  /\ rollbackStack = <<>>
  /\ executed = <<>>
  /\ repos = {}
  /\ projects = {}
  /\ secrets = SecretKeys
  /\ StoreIdle
  /\ FunctionIdle

ChecksUnchanged ==
  /\ UNCHANGED <<file, tmp, invocations, outcome, entryPhase, stream, repos,
                 projects, created, rollbackStack, executed, secrets>>
  /\ UNCHANGED <<svars, fvars>>

\* runEnvironmentChecks, lines 312-319: the next promise of the checks
\* record is created; after the last one the function awaits Promise.all
EnvCheckStart ==
  /\ pc = "env_checks"
  /\ local.running
  /\ Len(local.started) < Len(EnvChecks)
  /\ local' = [local EXCEPT
                 !.started = Append(@, EnvChecks[Len(@) + 1]),
                 !.running = Len(local.started) + 1 < Len(EnvChecks)]
  /\ pc' = pc
  /\ ChecksUnchanged

\* the callback of a started check runs with its result
CheckFinish(check, ok) ==
  /\ pc \in {"env_checks", "auth_checks"}
  /\ ~local.running
  /\ check \in Range(local.started) \ local.finished
  /\ local' = [local EXCEPT
                 !.finished = @ \cup {check},
                 !.checkOk = IF ok THEN @ \cup {check} ELSE @]
  /\ pc' = pc
  /\ ChecksUnchanged

\* runEnvironmentChecks, lines 321-333: Promise.all has resolved and the
\* report is returned
EnvChecksReturn ==
  /\ pc = "env_checks"
  /\ ~local.running
  /\ local.finished = Range(EnvChecks)
  /\ local' = [local EXCEPT !.decided = TRUE, !.present = local.checkOk]
  /\ pc' = "idle"
  /\ ChecksUnchanged

\* runAuthHandshake, line 174: const gh = await checkGhAuthStatus()
AuthGhStart ==
  /\ pc = "auth_checks"
  /\ local.running
  /\ local.started = <<>>
  /\ local' = [local EXCEPT !.started = <<"gh_auth">>, !.running = FALSE]
  /\ pc' = pc
  /\ ChecksUnchanged

\* runAuthHandshake, line 175: const vercel = await checkVercelWhoAmI(),
\* reached when the first await has resolved
AuthVercelStart ==
  /\ pc = "auth_checks"
  /\ local.started = <<"gh_auth">>
  /\ "gh_auth" \in local.finished
  /\ local' = [local EXCEPT !.started = Append(@, "vercel_whoami")]
  /\ pc' = pc
  /\ ChecksUnchanged

\* runAuthHandshake, lines 179-185: the stored backend credentials are
\* verified once the second await has resolved
AuthBackendStart ==
  /\ pc = "auth_checks"
  /\ local.started = <<"gh_auth", "vercel_whoami">>
  /\ "vercel_whoami" \in local.finished
  /\ StoredCredentials(file.doc)
  /\ local' = [local EXCEPT !.started = Append(@, "supabase_api")]
  /\ pc' = pc
  /\ ChecksUnchanged

\* runAuthHandshake, line 313: if (gh.ok && vercel.ok && supabaseOk); without
\* stored credentials the interactive collection stands in between
AuthChecksDecide ==
  /\ pc = "auth_checks"
  /\ "vercel_whoami" \in local.finished
  /\ StoredCredentials(file.doc) => "supabase_api" \in local.finished
  /\ local' = [local EXCEPT
                 !.decided = TRUE,
                 !.ghOk = "gh_auth" \in local.checkOk,
                 !.vercelOk = "vercel_whoami" \in local.checkOk,
                 !.supabaseOk = "supabase_api" \in local.checkOk]
  /\ pc' = "idle"
  /\ ChecksUnchanged

NextChecks ==
  \/ EnvCheckStart
  \/ \E check \in Range(EnvChecks) \cup {"gh_auth", "vercel_whoami", "supabase_api"},
        ok \in BOOLEAN : CheckFinish(check, ok)
  \/ EnvChecksReturn
  \/ AuthGhStart
  \/ AuthVercelStart
  \/ AuthBackendStart
  \/ AuthChecksDecide

SpecChecks == InitChecks /\ [][NextChecks]_vars

\* C34: in phase 0 and in phase 1 every check of the phase is started before
\* any check of the phase completes, and the decision of the phase is taken
\* only after all of them have finished.
C34_ChecksConcurrentlyOutstanding ==
  /\ [][local.finished' # local.finished =>
          Range(local.started) = PhaseChecks]_vars
  /\ [](local.decided => local.finished = PhaseChecks)

\* phase 0 alone starts its six checks before any of them completes
EnvChecksConcurrentlyOutstanding ==
  /\ [][(local.checkPhase = "0_env_check" /\ local.finished' # local.finished) =>
          Range(local.started) = PhaseChecks]_vars
  /\ [](local.decided => local.finished = PhaseChecks)

\* ---------------------------------------------------------------------
\* C35: in an invocation started through handleSetup, whenever phase 4 is
\* entered the stored github_repo, vercel_project_id, supabase_url and
\* supabase_publishable_key are all non-null, so the missing-values reset
\* branch of phase 4 is never taken.
C35_WiringResetUnreachable ==
  /\ [](pc = "env_wiring" =>
          /\ Readable(file)
          /\ Truthy(file.doc.resources.github_repo)
          /\ Truthy(file.doc.resources.vercel_project_id)
          /\ Truthy(file.doc.credentials.supabase_url)
          /\ Truthy(file.doc.credentials.supabase_publishable_key))
  /\ [][pc = "env_wiring" => pc' # "auth"]_vars

\* phase 4 is entered by a second invocation, holding the resources its
\* phase 3 has just returned and a stored backend URL
C35_Witness ==
  /\ pc = "env_wiring"
  /\ invocations = 2
  /\ file.doc.resources.github_repo = local.githubRepo
  /\ Truthy(file.doc.credentials.supabase_url)

\* ---------------------------------------------------------------------
\* Termination of handleSetup.  A step of a running invocation is one of the
\* awaited commands, probes, prompts or patches returning; the premise that
\* each of them eventually returns is weak fairness of these steps.  A new
\* invocation and resetState are started by the operator and carry no
\* fairness.
InvocationStep ==
  \/ \E firstOk \in BOOLEAN, secondOk \in BOOLEAN : Bootstrap(firstOk, secondOk)
  \/ \E ghOk \in BOOLEAN, vercelOk \in BOOLEAN, existingOk \in BOOLEAN :
       AuthCheck(ghOk, vercelOk, existingOk)
  \/ \E accessToken \in TokenAnswers, projectUrl \in UrlAnswers,
        publishableKey \in KeyAnswers, verifyOk \in BOOLEAN :
       AuthCollect(accessToken, projectUrl, publishableKey, verifyOk)
  \/ \E vercelToken \in VercelTokenAnswers : AuthVercelToken(vercelToken)
  \/ AuthAdvance
  \/ AuthPause
  \/ \E result \in ScaffoldResults : Scaffold(result)
  \/ ProvStart
  \/ \E ok \in BOOLEAN : ProvResolve(ok)
  \/ \E viewOk \in BOOLEAN : ProvRepoView(viewOk)
  \/ \E createOk \in BOOLEAN : ProvRepoCreate(createOk)
  \/ \E inspectOk \in BOOLEAN : ProvVercelInspect(inspectOk)
  \/ \E addOk \in BOOLEAN : ProvVercelAdd(addOk)
  \/ \E linkOk \in BOOLEAN, tolerated \in BOOLEAN : ProvVercelLink(linkOk, tolerated)
  \/ \E commandOk \in BOOLEAN : ProvRollbackStep(commandOk)
  \/ ProvRollbackDone
  \/ ProvPersist
  \/ \E writeOk \in BOOLEAN : EnvWiring(writeOk)
  \/ \E deployOk \in BOOLEAN : Deploy(deployOk)

\* a fresh workspace of an operator who owns no repository and no hosting
\* project yet; later invocations meet the resources the earlier ones made
InitFresh == Init /\ repos = {} /\ projects = {}

SpecTermination == InitFresh /\ [][Next]_vars /\ WF_vars(InvocationStep)

C37_ReturnNeverLeavesInProgress ==
  /\ []((pc = "idle" /\ outcome = "returned") =>
          /\ Readable(file)
          /\ file.doc.status \in {"complete", "failed", "paused_at_auth"})
  /\ [][(file' # file /\ Readable(file') /\ file'.doc.status = "in_progress") =>
          pc' # "idle"]_vars

\* an invocation that went through in_progress at phase 3 has returned with
\* status failed
C37_Witness ==
  /\ pc = "idle"
  /\ outcome = "returned"
  /\ "3_provision" \in Range(stream)
  /\ file.doc.status = "failed"

\* ---------------------------------------------------------------------
\* C38: in every persisted state, status complete occurs only with
\* current_phase 5_deploy, status failed only with 3_provision, and status
\* paused_at_auth only with 0_env_check, 1_auth, 2_scaffold or 5_deploy.
C38_StatusCoupledToPhase ==
  Readable(file) =>
    /\ file.doc.status = "complete" => file.doc.current_phase = "5_deploy"
    /\ file.doc.status = "failed" => file.doc.current_phase = "3_provision"
    /\ file.doc.status = "paused_at_auth" =>
         file.doc.current_phase \in {"0_env_check", "1_auth", "2_scaffold", "5_deploy"}

\* a second invocation has paused at phase 5 after the first one failed at
\* phase 3
C38_Witness ==
  /\ invocations = 2
  /\ entryPhase = "3_provision"
  /\ pc = "idle"
  /\ Readable(file)
  /\ file.doc.status = "paused_at_auth"
  /\ file.doc.current_phase = "5_deploy"

\* ---------------------------------------------------------------------
\* C39: whenever runProvisioning runs its rollback, the stack holds at most
\* one compensation, the deletion of the repository; the removal of the
\* hosting project is registered only at the end of a successful attempt and
\* is never executed by the rollback.
C39_RollbackHoldsOnlyRepoDeletion ==
  /\ pc = "prov_rollback" =>
       /\ Len(rollbackStack) <= 1
       /\ \A i \in DOMAIN rollbackStack : rollbackStack[i][1] = "gh repo delete"
  /\ \A i \in DOMAIN executed : executed[i][1] # "vercel project rm"
  /\ (\E i \in DOMAIN rollbackStack : rollbackStack[i][1] = "vercel project rm") =>
       /\ local.resultOk
       /\ pc \notin {"prov_rollback", "prov_vercel_link", "prov_vercel_add"}

\* the attempt created the repository and the hosting project, the link step
\* failed, and the rollback starts with the repository deletion alone
C39_Witness ==
  /\ pc = "prov_rollback"
  /\ local.vercelCreated
  /\ "vercel link" \in local.failed
  /\ rollbackStack = <<CmdRepoDelete(local.projectName)>>
  /\ executed = <<>>

\* ---------------------------------------------------------------------
\* C40: in every persisted state whose supabase_url is non-null,
\* resources.supabase_ref is the reference parsed from that URL (null when
\* the URL yields none); the reference phase 5 hands to the deployment is
\* the one of the stored backend URL.
C40_StoredRefBelongsToStoredUrl ==
  /\ (Readable(file) /\ file.doc.credentials.supabase_url # Null) =>
       file.doc.resources.supabase_ref = ParseRef(file.doc.credentials.supabase_url)
  /\ pc = "deploy" =>
       /\ Readable(file)
       /\ file.doc.credentials.supabase_url # Null
       /\ file.doc.resources.supabase_ref = ParseRef(file.doc.credentials.supabase_url)

\* a second invocation, begun on a document that had reached phase 5, has
\* stored a URL without a reference and enters phase 5 with a null reference
C40_Witness ==
  /\ pc = "deploy"
  /\ invocations = 2
  /\ entryPhase = "5_deploy"
  /\ local.supabaseOk
  /\ file.doc.credentials.supabase_url = "https://short"
  /\ file.doc.resources.supabase_ref = Null
====
